---- MODULE Spec2Model ----
(***************************************************************************)
(* Auto-battler combat core: the combat round engine (CombatManager), the  *)
(* skill, passive and gear managers, and the progression ledger            *)
(* (ProgressionManager), as state machines.                                *)
(*                                                                         *)
(* Numbers.  CombatStats quantities are JavaScript numbers that become     *)
(* fractional once a meta-upgrade multiplier (1 + 0.05 * level) has been   *)
(* applied to the base stats 15 / 10 / 100.  They are kept here as exact   *)
(* integers counted in units of 1/Scale.  Positions are counted in units   *)
(* of 1/PosScale on the line z = 0, where the unit direction vector of     *)
(* moveEntity is +1 or -1 (or 0 for a zero displacement).  Percentages     *)
(* (upgrade values, difficulty) are counted in hundredths.                 *)
(***************************************************************************)
EXTENDS Integers, Sequences, FiniteSets, TLC

VARIABLES
    ent,             \* entity id -> CombatEntity (stats, position, isPlayer)
    enemies,         \* CombatManager.enemies: the roster, a sequence of ids
    currentState,    \* CombatManager.currentState
    rounds,          \* CombatManager.rounds: the append-only round log
    currentRound,    \* CombatManager.currentRound
    actionQueue,     \* CombatManager.actionQueue
    lastRoundTime,   \* CombatManager.lastRoundTime
    result,          \* the CombatResult last handed to endCombat
    pc,              \* position inside update(): "idle" or "actions"
    now,             \* Date.now()
    skillSlots,      \* SkillManager.loadout.slots (slot i is element i + 1)
    skillCooldown,   \* Skill.currentCooldown of every registered skill
    passiveSlots,    \* PassiveManager.loadout.slots
    gearLoadout,     \* GearManager.loadout: slot -> item id or None
    currentRun,      \* ProgressionManager.currentRun (NoRun for null)
    progress,        \* ProgressionManager.progress
    storage,         \* localStorage: <<>>, or <<the object saved as 'game_progress'>>
    ret              \* the last public call and what it returned

vars == <<ent, enemies, currentState, rounds, currentRound, actionQueue,
          lastRoundTime, result, pc, now, skillSlots, skillCooldown,
          passiveSlots, gearLoadout, currentRun, progress, storage, ret>>

engineVars == <<enemies, currentState, rounds, currentRound, actionQueue,
                lastRoundTime, result, pc>>

loadoutVars == <<skillSlots, passiveSlots, gearLoadout>>

progressVars == <<currentRun, progress, storage>>

-----------------------------------------------------------------------------
(* Units and program constants *)

\* a stat is held in units of 1/Scale of a point, a position in units of
\* 1/PosScale
Scale == 4
PosScale == 10

\* milliseconds
ROUND_DURATION == 2000
\* 0.1, in units of 1/PosScale
MOVE_SPEED == 1
\* 1.0, in units of 1/PosScale
ATTACK_RANGE == 10

None == "none"
\* null for ProgressionManager.currentRun and PlayerProgress.bestRun
NoRun == [started |-> FALSE, startTime |-> 0, endTime |-> 0, enemiesDefeated |-> 0,
          damageDealt |-> 0, damageTaken |-> 0, resourcesGained |-> 0,
          result |-> "DEFEAT", difficulty |-> 0, wave |-> 0]

\* the last public call: its name, its arguments, the boolean it returned (the
\* success flag of a SkillResult) and the effects of a SkillResult
Call(op, args, value, effects) ==
    [op |-> op, args |-> args, value |-> value, effects |-> effects]

NoCall == Call(None, <<>>, FALSE, <<>>)

\* no CombatResult yet; -1 stands for an undefined field
NoResult == [state |-> None, winner |-> -1, experienceGained |-> -1]

Max(a, b) == IF a >= b THEN a ELSE b
Min(a, b) == IF a <= b THEN a ELSE b

\* Math.floor(n / d) for d > 0 (\div rounds toward minus infinity)
FloorDiv(n, d) == n \div d

RECURSIVE SeqSum(_)
SeqSum(s) == IF s = <<>> THEN 0 ELSE Head(s) + SeqSum(Tail(s))

-----------------------------------------------------------------------------
(* Bounds of the model *)

MaxEnemies == 2
MaxRounds == 7

-----------------------------------------------------------------------------
(* Static data: the registries the managers build in their constructors *)

\* SkillManager.initializeDefaultSkills: value, cooldown and energyCost as
\* written in the source (energyCost in whole energy points)
SkillIds == {"basicAttack", "powerStrike", "heal"}

SkillDef ==
    [basicAttack |-> [type |-> "ATTACK", targetType |-> "SINGLE_ENEMY",
                      effects |-> <<[type |-> "ATTACK", value |-> 100]>>,
                      cooldown |-> 0, energyCost |-> 0],
     powerStrike |-> [type |-> "ATTACK", targetType |-> "SINGLE_ENEMY",
                      effects |-> <<[type |-> "ATTACK", value |-> 200]>>,
                      cooldown |-> 3, energyCost |-> 30],
     heal        |-> [type |-> "HEAL", targetType |-> "SELF",
                      effects |-> <<[type |-> "HEAL", value |-> 50]>>,
                      cooldown |-> 5, energyCost |-> 40]]

SkillMaxSlots == 4

\* PassiveManager.initializeDefaultPassives: value and chance in hundredths
\* (chance 0 stands for an absent chance)
PassiveIds == {"lifeSteal", "criticalStrike", "toughness"}

PassiveDef ==
    [lifeSteal      |-> [trigger |-> "ON_ATTACK",
                         effects |-> <<[type |-> "LIFE_STEAL", value |-> 10, chance |-> 0]>>],
     criticalStrike |-> [trigger |-> "ON_ATTACK",
                         effects |-> <<[type |-> "CRIT_CHANCE", value |-> 15, chance |-> 20]>>],
     toughness      |-> [trigger |-> "PERMANENT",
                         effects |-> <<[type |-> "STAT_BOOST", value |-> 1000, chance |-> 0]>>]]

PassiveMaxSlots == 3

\* GearSlot, in the declaration order Object.values(loadout) iterates in
GearSlots == <<"HEAD", "CHEST", "LEGS", "FEET", "WEAPON", "OFFHAND",
               "ACCESSORY1", "ACCESSORY2">>

GearSlotSet == {GearSlots[i] : i \in 1..Len(GearSlots)}

ZeroStats == [attack |-> 0, defense |-> 0, health |-> 0, speed |-> 0, energy |-> 0]

\* GearManager.initializeDefaultGear
GearIds == {"basicSword", "basicShield", "leatherHelmet"}

GearDef ==
    [basicSword    |-> [slot |-> "WEAPON", setId |-> "warrior",
                        baseStats |-> [attack |-> 10, defense |-> 0, health |-> 0,
                                       speed |-> 0, energy |-> 0]],
     basicShield   |-> [slot |-> "OFFHAND", setId |-> "warrior",
                        baseStats |-> [attack |-> 0, defense |-> 10, health |-> 20,
                                       speed |-> -1, energy |-> 0]],
     leatherHelmet |-> [slot |-> "HEAD", setId |-> "warrior",
                        baseStats |-> [attack |-> 0, defense |-> 5, health |-> 10,
                                       speed |-> 0, energy |-> 5]]]

\* GearManager.initializeDefaultSets
GearSetOrder == <<"warrior">>

GearSetDef ==
    [warrior |-> <<[pieces |-> 2,
                    stats |-> [attack |-> 5, defense |-> 5, health |-> 20,
                               speed |-> 0, energy |-> 10]],
                   [pieces |-> 4,
                    stats |-> [attack |-> 15, defense |-> 15, health |-> 50,
                               speed |-> 2, energy |-> 20]]>>]

\* ProgressionManager.initializeMetaUpgrades, in Map insertion order;
\* value in hundredths
UpgradeOrder == <<"damage-boost", "health-boost", "defense-boost", "resource-gain">>

UpgradeIds == {UpgradeOrder[i] : i \in 1..Len(UpgradeOrder)}

UpgradeDef(id) ==
    CASE id = "damage-boost"  -> [type |-> "DAMAGE_BOOST",  value |-> 5,  cost |-> 100, maxLevel |-> 10]
      [] id = "health-boost"  -> [type |-> "HEALTH_BOOST",  value |-> 10, cost |-> 100, maxLevel |-> 10]
      [] id = "defense-boost" -> [type |-> "DEFENSE_BOOST", value |-> 5,  cost |-> 100, maxLevel |-> 10]
      [] id = "resource-gain" -> [type |-> "RESOURCE_GAIN", value |-> 10, cost |-> 150, maxLevel |-> 5]

DefaultUpgrades ==
    [id \in UpgradeIds |-> [currentLevel |-> 0, cost |-> UpgradeDef(id).cost]]

-----------------------------------------------------------------------------
(* Entities *)

Player == 0

\* EnemySpawner.createEnemyStats: Math.floor(base * (1 + (level - 1) * 0.2))
EnemyStat(base, level) == Scale * FloorDiv(base * (level + 4), 5)

createEnemyStats(level) ==
    [level |-> level,
     maxHealth |-> EnemyStat(50, level), currentHealth |-> EnemyStat(50, level),
     attack |-> EnemyStat(10, level), defense |-> EnemyStat(5, level),
     speed |-> EnemyStat(5, level),
     maxEnergy |-> EnemyStat(50, level), currentEnergy |-> EnemyStat(50, level)]

\* EnemySpawner.spawnEnemy: the entity built around createEnemyStats(level),
\* placed at (x, 0, 0)
spawnEnemy(level, x) ==
    [stats |-> createEnemyStats(level), x |-> x, z |-> 0, isPlayer |-> FALSE]

\* x * (1 + value * level), value in hundredths
MulPct(x, pct) == FloorDiv(x * (100 + pct), 100)

ApplyUpgrade(st, type, pct) ==
    CASE type = "DAMAGE_BOOST"  -> [st EXCEPT !.attack = MulPct(@, pct)]
      [] type = "HEALTH_BOOST"  -> [st EXCEPT !.maxHealth = MulPct(@, pct),
                                              !.currentHealth = MulPct(st.maxHealth, pct)]
      [] type = "DEFENSE_BOOST" -> [st EXCEPT !.defense = MulPct(@, pct)]
      [] type = "SPEED_BOOST"   -> [st EXCEPT !.speed = MulPct(@, pct)]
      [] type = "ENERGY_BOOST"  -> [st EXCEPT !.maxEnergy = MulPct(@, pct),
                                              !.currentEnergy = MulPct(st.maxEnergy, pct)]
      [] OTHER -> st

RECURSIVE ApplyUpgradesFrom(_, _, _)
ApplyUpgradesFrom(st, upgrades, i) ==
    IF i > Len(UpgradeOrder) THEN st
    ELSE LET id == UpgradeOrder[i]
             u == upgrades[id]
             next == IF u.currentLevel = 0 THEN st
                     ELSE ApplyUpgrade(st, UpgradeDef(id).type,
                                       UpgradeDef(id).value * u.currentLevel)
         IN ApplyUpgradesFrom(next, upgrades, i + 1)

\* ProgressionManager.applyMetaUpgrades(entity)
applyMetaUpgrades(e, upgrades) ==
    [e EXCEPT !.stats = ApplyUpgradesFrom(@, upgrades, 1)]

\* Game.createPlayerEntity
createPlayerEntity(upgrades) ==
    applyMetaUpgrades(
        [stats |-> [level |-> 1,
                    maxHealth |-> 100 * Scale, currentHealth |-> 100 * Scale,
                    attack |-> 15 * Scale, defense |-> 10 * Scale,
                    speed |-> 10 * Scale,
                    maxEnergy |-> 100 * Scale, currentEnergy |-> 100 * Scale],
         x |-> 0, z |-> 0, isPlayer |-> TRUE],
        upgrades)

-----------------------------------------------------------------------------
(* GearManager *)

AddStats(a, b) ==
    [attack |-> a.attack + b.attack, defense |-> a.defense + b.defense,
     health |-> a.health + b.health, speed |-> a.speed + b.speed,
     energy |-> a.energy + b.energy]

RECURSIVE SumStats(_)
SumStats(s) == IF s = <<>> THEN ZeroStats ELSE AddStats(Head(s), SumStats(Tail(s)))

\* the items of the loadout, in slot order
EquippedGear(loadout) ==
    SelectSeq([i \in 1..Len(GearSlots) |-> loadout[GearSlots[i]]],
              LAMBDA g : g # None)

\* the number of equipped pieces of a set
SetPieces(loadout, setId) ==
    Cardinality({sl \in GearSlotSet :
                   loadout[sl] # None /\ GearDef[loadout[sl]].setId = setId})

\* a faulty variant of ActiveBonuses: a tier needs more pieces than its
\* threshold
ActiveBonusesStrict(setId, count) ==
    SelectSeq(GearSetDef[setId], LAMBDA b : b.pieces < count)

\* the bonus tiers of a set that count pieces reach
ActiveBonuses(setId, count) ==
    SelectSeq(GearSetDef[setId], LAMBDA b : b.pieces <= count)

\* the summed stat blocks of the active tiers of one set
SetBonus(loadout, setId) ==
    LET act == ActiveBonuses(setId, SetPieces(loadout, setId))
    IN SumStats([i \in 1..Len(act) |-> act[i].stats])

\* GearManager.calculateSetBonuses
calculateSetBonuses(loadout) ==
    SumStats([i \in 1..Len(GearSetOrder) |-> SetBonus(loadout, GearSetOrder[i])])

\* GearManager.calculateTotalStats (the stats field)
calculateTotalStats(loadout) ==
    LET items == EquippedGear(loadout)
        base == SumStats([i \in 1..Len(items) |-> GearDef[items[i]].baseStats])
    IN AddStats(base, calculateSetBonuses(loadout))

\* a faulty variant of equipGearOk: the item's own slot is not looked at
equipGearAnySlot(gearId, slot) ==
    gearId \in GearIds

\* the guard of GearManager.equipGear: TRUE when the item goes into the slot
equipGearOk(gearId, slot) ==
    IF gearId \notin GearIds THEN FALSE ELSE GearDef[gearId].slot = slot

\* the guard of GearManager.unequipGear
unequipGearOk(loadout, slot) == loadout[slot] # None

\* GearManager.applyGearStats(entity)
applyGearStats(e, loadout) ==
    LET t == calculateTotalStats(loadout)
        st == e.stats
        maxH == st.maxHealth + Scale * t.health
        maxE == st.maxEnergy + Scale * t.energy
    IN [e EXCEPT !.stats =
          [st EXCEPT !.attack = @ + Scale * t.attack,
                     !.defense = @ + Scale * t.defense,
                     !.maxHealth = maxH,
                     !.currentHealth = Min(st.currentHealth + Scale * t.health, maxH),
                     !.speed = @ + Scale * t.speed,
                     !.maxEnergy = maxE,
                     !.currentEnergy = Min(st.currentEnergy + Scale * t.energy, maxE)]]

-----------------------------------------------------------------------------
(* PassiveManager: the permanent passives *)

\* PassiveManager.getActivePassives
getActivePassives(slots) == SelectSeq(slots, LAMBDA p : p # None)

\* one STAT_BOOST effect of applyPermanentPassives; value in hundredths
ApplyStatBoost(st, value) ==
    LET v == FloorDiv(Scale * value, 100)
    IN [st EXCEPT !.attack = @ + v,
                  !.defense = @ + v,
                  !.maxHealth = @ + v * 10,
                  !.currentHealth = Min(st.currentHealth + v * 10, st.maxHealth + v * 10)]

RECURSIVE ApplyPassiveEffects(_, _)
ApplyPassiveEffects(st, effects) ==
    IF effects = <<>> THEN st
    ELSE ApplyPassiveEffects(
             IF Head(effects).type = "STAT_BOOST"
             THEN ApplyStatBoost(st, Head(effects).value) ELSE st,
             Tail(effects))

RECURSIVE ApplyPermanentFrom(_, _)
ApplyPermanentFrom(st, passives) ==
    IF passives = <<>> THEN st
    ELSE ApplyPermanentFrom(
             IF PassiveDef[Head(passives)].trigger = "PERMANENT"
             THEN ApplyPassiveEffects(st, PassiveDef[Head(passives)].effects) ELSE st,
             Tail(passives))

\* PassiveManager.applyPermanentPassives(entity)
applyPermanentPassives(e, slots) ==
    [e EXCEPT !.stats = ApplyPermanentFrom(@, getActivePassives(slots))]

\* PassiveManager.calculatePassiveEffect(baseValue, source, target,
\* triggerValue): baseValue in hundredths; triggerValue is <<>> when the
\* argument is not passed and <<v>>, v in 1/Scale, when it is; the result a
\* whole number.  (triggerValue || 1): a triggerValue of 0 counts as 1, as a
\* missing one does.
calculatePassiveEffect(baseValue, level, triggerValue) ==
    FloorDiv(baseValue * (9 + level)
               * (IF triggerValue = <<>> \/ triggerValue[1] = 0
                  THEN Scale ELSE triggerValue[1]),
             1000 * Scale)

\* PassiveManager.rollPassive for each passive of the list: the lists of
\* passives that may come out as triggered.  A passive whose effects carry no
\* chance always triggers, one with a chance may or may not (Math.random).
RECURSIVE RollOutcomes(_)
RollOutcomes(passives) ==
    IF passives = <<>> THEN {<<>>}
    ELSE LET rest == RollOutcomes(Tail(passives))
             def == PassiveDef[Head(passives)]
             with == {<<Head(passives)>> \o t : t \in rest}
         IN IF def.trigger = "PERMANENT"
               \/ \A i \in 1..Len(def.effects) : def.effects[i].chance = 0
            THEN with
            ELSE with \cup rest

\* PassiveManager.checkTrigger(trigger, source, target, value): the possible
\* lists of triggered passives, in slot order
checkTrigger(slots, trigger) ==
    RollOutcomes(SelectSeq(getActivePassives(slots),
                           LAMBDA id : PassiveDef[id].trigger = trigger))

\* the effect values checkTrigger reports for a list of triggered passives
RECURSIVE TriggeredValues(_, _, _)
TriggeredValues(triggered, level, value) ==
    IF triggered = <<>> THEN <<>>
    ELSE [i \in 1..Len(PassiveDef[Head(triggered)].effects) |->
            calculatePassiveEffect(PassiveDef[Head(triggered)].effects[i].value, level, value)]
         \o TriggeredValues(Tail(triggered), level, value)

\* finalDamage of the ATTACK branch of CombatManager.processActions:
\* action.damage times (1 + value) for every effect value
RECURSIVE finalDamage(_, _)
finalDamage(damage, values) ==
    IF values = <<>> THEN damage
    ELSE finalDamage(damage * (1 + Head(values)), Tail(values))

-----------------------------------------------------------------------------
(* SkillManager *)

SlotIndexes(maxSlots) == 0..(maxSlots - 1)

\* a faulty variant of EquipInto: the other slots are left as they are
EquipIntoKeeping(slots, id, slotIndex) ==
    [i \in 1..Len(slots) |-> IF i = slotIndex + 1 THEN id ELSE slots[i]]

\* SkillManager.equipSkill / PassiveManager.equipPassive: the slots after a
\* successful equip (any other slot holding the id is vacated first)
EquipInto(slots, id, slotIndex) ==
    [i \in 1..Len(slots) |->
        IF i = slotIndex + 1 THEN id
        ELSE IF slots[i] = id THEN None ELSE slots[i]]

\* a faulty variant of equipSkillOk: slot index maxSlots is let through
equipSkillUpTo(skillId, slotIndex) ==
    /\ ~(slotIndex < 0 \/ slotIndex > SkillMaxSlots)
    /\ skillId \in SkillIds

\* SkillManager.equipSkill(skillId, slotIndex): the returned boolean
equipSkillOk(skillId, slotIndex) ==
    /\ ~(slotIndex < 0 \/ slotIndex >= SkillMaxSlots)
    /\ skillId \in SkillIds

\* SkillManager.unequipSkill(slotIndex): the returned boolean
unequipSkillOk(slotIndex) == ~(slotIndex < 0 \/ slotIndex >= SkillMaxSlots)

\* PassiveManager.equipPassive(passiveId, slotIndex): the returned boolean
equipPassiveOk(passiveId, slotIndex) ==
    /\ ~(slotIndex < 0 \/ slotIndex >= PassiveMaxSlots)
    /\ passiveId \in PassiveIds

\* PassiveManager.unequipPassive(slotIndex): the returned boolean
unequipPassiveOk(slotIndex) == ~(slotIndex < 0 \/ slotIndex >= PassiveMaxSlots)

\* SkillManager.calculateSkillEffect:
\* Math.floor(baseValue * (attack / 100) * (1 - defense / 100))
calculateSkillEffect(baseValue, source, target) ==
    FloorDiv(baseValue * source.attack * (100 * Scale - target.defense),
             (100 * Scale) * (100 * Scale))

\* a faulty variant of SkillReady: the energy test left out
SkillReadyAnyEnergy(cd, energy, skillId) ==
    ~(cd > 0)

\* a faulty variant of SkillReady: the cooldown test left out
SkillReadyAnyCooldown(cd, energy, skillId) ==
    ~(energy < Scale * SkillDef[skillId].energyCost)

\* the guard of SkillManager.executeSkill
SkillReady(cd, energy, skillId) ==
    /\ ~(cd > 0)
    /\ ~(energy < Scale * SkillDef[skillId].energyCost)

\* SkillManager.executeSkill(skill, source, targets): the SkillResult together
\* with the skill's cooldown and the source's energy after the call.
\* targets is a sequence of entity ids, es the entities.
executeSkill(skillId, cd, sourceId, targets, es) ==
    IF ~SkillReady(cd, es[sourceId].stats.currentEnergy, skillId)
    THEN [success |-> FALSE, targets |-> <<>>, effects |-> <<>>,
          cooldown |-> cd, energy |-> es[sourceId].stats.currentEnergy]
    ELSE LET sk == SkillDef[skillId]
             n == Len(sk.effects)
             effs == [k \in 1..(Len(targets) * n) |->
                        LET t == targets[((k - 1) \div n) + 1]
                            e == sk.effects[((k - 1) % n) + 1]
                        IN [target |-> t, type |-> e.type,
                            value |-> calculateSkillEffect(e.value, es[sourceId].stats,
                                                           es[t].stats)]]
         IN [success |-> TRUE, targets |-> targets, effects |-> effs,
             cooldown |-> sk.cooldown,
             energy |-> es[sourceId].stats.currentEnergy - Scale * sk.energyCost]

\* a faulty variant of updateCooldowns: the test currentCooldown > 0 left out
updateCooldownsUnfloored(slots, cds) ==
    [id \in SkillIds |->
        IF \E i \in 1..Len(slots) : slots[i] = id
        THEN cds[id] - 1 ELSE cds[id]]

\* SkillManager.updateCooldowns
updateCooldowns(slots, cds) ==
    [id \in SkillIds |->
        IF (\E i \in 1..Len(slots) : slots[i] = id) /\ cds[id] > 0
        THEN cds[id] - 1 ELSE cds[id]]

\* SkillManager.getAvailableSkills(source)
getAvailableSkills(slots, cds, source) ==
    SelectSeq(slots,
              LAMBDA id : /\ id # None
                          /\ cds[id] = 0
                          /\ source.currentEnergy >= Scale * SkillDef[id].energyCost)

-----------------------------------------------------------------------------
(* ProgressionManager: what the combat engine calls *)

\* ProgressionManager.getMetaUpgradeEffect(type), in hundredths
RECURSIVE MetaEffectFrom(_, _, _)
MetaEffectFrom(upgrades, type, i) ==
    IF i > Len(UpgradeOrder) THEN 0
    ELSE IF UpgradeDef(UpgradeOrder[i]).type = type
         THEN UpgradeDef(UpgradeOrder[i]).value * upgrades[UpgradeOrder[i]].currentLevel
         ELSE MetaEffectFrom(upgrades, type, i + 1)

getMetaUpgradeEffect(upgrades, type) == MetaEffectFrom(upgrades, type, 1)

\* ProgressionManager.calculateResourceGain(enemyLevel)
calculateResourceGain(upgrades, enemyLevel) ==
    FloorDiv(enemyLevel * 5 * (100 + getMetaUpgradeEffect(upgrades, "RESOURCE_GAIN")), 100)

\* ProgressionManager.trackCombatEvent(type, value): the run after the call
trackCombatEvent(run, upgrades, type, value) ==
    IF ~run.started THEN run
    ELSE CASE type = "damage_dealt" -> [run EXCEPT !.damageDealt = @ + value]
           [] type = "damage_taken" -> [run EXCEPT !.damageTaken = @ + value]
           [] type = "enemy_defeated" ->
                [run EXCEPT !.enemiesDefeated = @ + 1,
                            !.resourcesGained = @ + calculateResourceGain(upgrades, value)]

-----------------------------------------------------------------------------
(* CombatManager: action generation *)

\* CombatManager.calculateDamage
calculateDamage(attacker, defender) ==
    Max(1 * Scale, attacker.attack - defender.defense)

\* CombatManager.isWithinAttackRange (squared planar distance)
isWithinAttackRange(p1, p2) ==
    LET dx == p1.x - p2.x
        dz == p1.z - p2.z
    IN dx * dx + dz * dz <= ATTACK_RANGE * ATTACK_RANGE

\* CombatManager.findNearestEnemy: -1 for null.  The scan keeps the first
\* enemy of the smallest squared distance (strict <).
RECURSIVE NearestFrom(_, _, _, _, _, _)
NearestFrom(es, roster, pos, i, best, bestDist) ==
    IF i > Len(roster) THEN best
    ELSE LET e == es[roster[i]]
             dx == e.x - pos.x
             dz == e.z - pos.z
             distSq == dx * dx + dz * dz
         IN IF e.stats.currentHealth <= 0
            THEN NearestFrom(es, roster, pos, i + 1, best, bestDist)
            ELSE IF best = -1 \/ distSq < bestDist
                 THEN NearestFrom(es, roster, pos, i + 1, roster[i], distSq)
                 ELSE NearestFrom(es, roster, pos, i + 1, best, bestDist)

findNearestEnemy(es, roster, pos) == NearestFrom(es, roster, pos, 1, -1, 0)

NullAction == [type |-> None, source |-> -1, target |-> -1, damage |-> 0, skill |-> None]

\* a faulty variant of determinePlayerAction: an enemy within range is
\* attacked before the skills are looked at
determinePlayerActionAttackFirst(es, roster, slots, cds) ==
    LET nearestEnemy == findNearestEnemy(es, roster, es[Player])
        availableSkills == getAvailableSkills(slots, cds, es[Player].stats)
    IN IF nearestEnemy = -1 THEN NullAction
       ELSE IF isWithinAttackRange(es[Player], es[nearestEnemy])
            THEN [type |-> "ATTACK", source |-> Player, target |-> nearestEnemy,
                  damage |-> calculateDamage(es[Player].stats, es[nearestEnemy].stats),
                  skill |-> None]
            ELSE IF Len(availableSkills) > 0
                 THEN [type |-> "SKILL", source |-> Player, target |-> nearestEnemy,
                       damage |-> 0, skill |-> availableSkills[1]]
                 ELSE [type |-> "MOVE", source |-> Player, target |-> nearestEnemy,
                       damage |-> 0, skill |-> None]

\* CombatManager.determinePlayerAction.  A MOVE action names the entity whose
\* live position object is its targetPosition.
determinePlayerAction(es, roster, slots, cds) ==
    LET nearestEnemy == findNearestEnemy(es, roster, es[Player])
        availableSkills == getAvailableSkills(slots, cds, es[Player].stats)
    IN IF nearestEnemy = -1 THEN NullAction
       ELSE IF Len(availableSkills) > 0
            THEN [type |-> "SKILL", source |-> Player, target |-> nearestEnemy,
                  damage |-> 0, skill |-> availableSkills[1]]
            ELSE IF isWithinAttackRange(es[Player], es[nearestEnemy])
                 THEN [type |-> "ATTACK", source |-> Player, target |-> nearestEnemy,
                       damage |-> calculateDamage(es[Player].stats, es[nearestEnemy].stats),
                       skill |-> None]
                 ELSE [type |-> "MOVE", source |-> Player, target |-> nearestEnemy,
                       damage |-> 0, skill |-> None]

\* CombatManager.determineEnemyAction
determineEnemyAction(es, enemy) ==
    IF isWithinAttackRange(es[enemy], es[Player])
    THEN [type |-> "ATTACK", source |-> enemy, target |-> Player,
          damage |-> calculateDamage(es[enemy].stats, es[Player].stats), skill |-> None]
    ELSE [type |-> "MOVE", source |-> enemy, target |-> Player,
          damage |-> 0, skill |-> None]

\* CombatManager.determineAction
determineAction(es, roster, slots, cds, id) ==
    IF es[id].isPlayer THEN determinePlayerAction(es, roster, slots, cds)
    ELSE determineEnemyAction(es, id)

\* a faulty variant of InsertBySpeed: an entity goes before the entities of
\* equal speed already placed, so ties come out in reverse order
RECURSIVE InsertBySpeedUnstable(_, _, _)
InsertBySpeedUnstable(es, id, sorted) ==
    IF sorted = <<>> THEN <<id>>
    ELSE IF es[Head(sorted)].stats.speed > es[id].stats.speed
         THEN <<Head(sorted)>> \o InsertBySpeedUnstable(es, id, Tail(sorted))
         ELSE <<id>> \o sorted

\* Array.prototype.sort((a, b) => b.stats.speed - a.stats.speed): a stable
\* sort, so an entity goes after every entity already placed whose speed is
\* not lower
RECURSIVE InsertBySpeed(_, _, _)
InsertBySpeed(es, id, sorted) ==
    IF sorted = <<>> THEN <<id>>
    ELSE IF es[Head(sorted)].stats.speed >= es[id].stats.speed
         THEN <<Head(sorted)>> \o InsertBySpeed(es, id, Tail(sorted))
         ELSE <<id>> \o sorted

RECURSIVE SortBySpeedFrom(_, _, _)
SortBySpeedFrom(es, ids, sorted) ==
    IF ids = <<>> THEN sorted
    ELSE SortBySpeedFrom(es, Tail(ids), InsertBySpeed(es, Head(ids), sorted))

SortBySpeed(es, ids) == SortBySpeedFrom(es, ids, <<>>)

\* the living entities of processRound, sorted
aliveEntities(es, roster) ==
    SortBySpeed(es, SelectSeq(<<Player>> \o roster,
                              LAMBDA id : es[id].stats.currentHealth > 0))

\* CombatManager.processRound: the new action queue
processRound(es, roster, slots, cds) ==
    LET alive == aliveEntities(es, roster)
        acts == [i \in 1..Len(alive) |-> determineAction(es, roster, slots, cds, alive[i])]
    IN SelectSeq(acts, LAMBDA a : a.type # None)

-----------------------------------------------------------------------------
(* CombatManager: action resolution.  A world w is the part of the state an *)
(* action can change: [ent, enemies, run, cds].                             *)

\* CombatManager.removeEnemy: indexOf / splice
RECURSIVE removeEnemy(_, _)
removeEnemy(roster, id) ==
    IF roster = <<>> THEN <<>>
    ELSE IF Head(roster) = id THEN Tail(roster)
         ELSE <<Head(roster)>> \o removeEnemy(Tail(roster), id)

\* a faulty variant of attackDamage: no floor of 1
attackDamageUnfloored(attacker, target) ==
    attacker.attack - target.defense

\* the damage handleAttack computes: Math.max(1, attack - defense)
attackDamage(attacker, target) ==
    Max(1 * Scale, attacker.attack - target.defense)

\* CombatManager.handleAttack(attacker, target)
handleAttack(w, upgrades, attacker, target) ==
    LET damage == attackDamage(w.ent[attacker].stats, w.ent[target].stats)
        health == Max(0, w.ent[target].stats.currentHealth - damage)
        es == [w.ent EXCEPT ![target].stats.currentHealth = health]
        run1 == trackCombatEvent(w.run, upgrades,
                                 IF es[attacker].isPlayer THEN "damage_dealt"
                                 ELSE "damage_taken", damage)
        died == health <= 0 /\ ~es[target].isPlayer
    IN [w EXCEPT !.ent = es,
                 !.run = IF died
                         THEN trackCombatEvent(run1, upgrades, "enemy_defeated",
                                               es[target].stats.level)
                         ELSE run1,
                 !.enemies = IF died THEN removeEnemy(@, target) ELSE @]

\* CombatManager.handleSkillEffect(source, effect)
handleSkillEffect(w, upgrades, source, effect) ==
    CASE effect.type = "ATTACK" -> handleAttack(w, upgrades, source, effect.target)
      [] effect.type = "HEAL" ->
            [w EXCEPT !.ent[effect.target].stats.currentHealth =
                Min(w.ent[effect.target].stats.maxHealth, @ + Scale * effect.value)]
      [] OTHER -> w

RECURSIVE ApplySkillEffects(_, _, _, _)
ApplySkillEffects(w, upgrades, source, effects) ==
    IF effects = <<>> THEN w
    ELSE ApplySkillEffects(handleSkillEffect(w, upgrades, source, Head(effects)),
                           upgrades, source, Tail(effects))

\* the direction of moveEntity on the line z = 0
Sign(d) == IF d > 0 THEN 1 ELSE IF d < 0 THEN -1 ELSE 0

\* a faulty variant of moveEntity: a step away from the target
moveEntityAway(es, id, targetPos) ==
    [es EXCEPT ![id].x = @ - Sign(targetPos.x - es[id].x) * MOVE_SPEED]

\* CombatManager.moveEntity(entity, targetPosition)
moveEntity(es, id, targetPos) ==
    [es EXCEPT ![id].x = @ + Sign(targetPos.x - es[id].x) * MOVE_SPEED]

\* one iteration of the loop of CombatManager.processActions
resolveAction(w, upgrades, action) ==
    CASE action.type = "ATTACK" -> handleAttack(w, upgrades, action.source, action.target)
      [] action.type = "SKILL" ->
            LET r == executeSkill(action.skill, w.cds[action.skill], action.source,
                                  <<action.target>>, w.ent)
                w1 == [w EXCEPT !.cds[action.skill] = r.cooldown,
                                !.ent[action.source].stats.currentEnergy = r.energy]
            IN IF r.success
               THEN ApplySkillEffects(w1, upgrades, action.source, r.effects)
               ELSE w
      [] action.type = "MOVE" ->
            [w EXCEPT !.ent = moveEntity(w.ent, action.source, w.ent[action.target])]

\* CombatManager.calculateExperienceGain
calculateExperienceGain(es, roster) ==
    SeqSum([i \in 1..Len(roster) |-> es[roster[i]].stats.level * 10])

AllEnemiesDown(es, roster) ==
    \A i \in 1..Len(roster) : es[roster[i]].stats.currentHealth <= 0

\* a faulty variant of checkCombatEnd: the enemies are looked at first
checkCombatEndVictoryFirst(es, roster) ==
    IF AllEnemiesDown(es, roster)
    THEN [state |-> "VICTORY", winner |-> Player,
          experienceGained |-> calculateExperienceGain(es, roster)]
    ELSE IF es[Player].stats.currentHealth <= 0
         THEN LET living == SelectSeq(roster, LAMBDA id : es[id].stats.currentHealth > 0)
              IN [state |-> "DEFEAT",
                  winner |-> IF living = <<>> THEN -1 ELSE living[1],
                  experienceGained |-> -1]
         ELSE NoResult

\* CombatManager.checkCombatEnd: the CombatResult handed to endCombat, or
\* NoResult when combat goes on
checkCombatEnd(es, roster) ==
    IF es[Player].stats.currentHealth <= 0
    THEN LET living == SelectSeq(roster, LAMBDA id : es[id].stats.currentHealth > 0)
         IN [state |-> "DEFEAT",
             winner |-> IF living = <<>> THEN -1 ELSE living[1],
             experienceGained |-> -1]
    ELSE IF AllEnemiesDown(es, roster)
         THEN [state |-> "VICTORY", winner |-> Player,
               experienceGained |-> calculateExperienceGain(es, roster)]
         ELSE NoResult

-----------------------------------------------------------------------------
(* ProgressionManager *)

\* a faulty variant of nextCost: cost * 1.5 rounded up
nextCostCeil(cost) == FloorDiv(cost * 3 + 1, 2)

\* Math.floor(cost * 1.5)
nextCost(cost) == FloorDiv(cost * 3, 2)

RECURSIVE CostAt(_, _)
CostAt(base, level) == IF level = 0 THEN base ELSE nextCost(CostAt(base, level - 1))

\* the metaUpgrades map after the given number of purchases of every upgrade
UpgradesAt(levels) ==
    [id \in UpgradeIds |->
        [currentLevel |-> levels[id], cost |-> CostAt(UpgradeDef(id).cost, levels[id])]]

NoLevels == [id \in UpgradeIds |-> 0]

\* ProgressionManager.loadProgress without a saved record, followed by
\* initializeMetaUpgrades
FreshProgress ==
    [totalRuns |-> 0, bestRun |-> NoRun, resources |-> 0,
     metaUpgrades |-> DefaultUpgrades, unlockedContent |-> {},
     statistics |-> [totalEnemiesDefeated |-> 0, totalDamageDealt |-> 0,
                     totalDamageTaken |-> 0, totalResourcesGained |-> 0,
                     totalPlayTime |-> 0]]

\* Array.from(set): the members of a Set, one after the other
RECURSIVE SetToSeq(_)
SetToSeq(S) ==
    IF S = {} THEN <<>>
    ELSE LET x == CHOOSE y \in S : TRUE IN <<x>> \o SetToSeq(S \ {x})

\* a faulty variant of saveProgress: the unlocked content is not written
saveProgressNoContent(p) ==
    [totalRuns |-> p.totalRuns, bestRun |-> p.bestRun, resources |-> p.resources,
     metaUpgrades |-> [i \in 1..Len(UpgradeOrder) |->
                         <<UpgradeOrder[i], p.metaUpgrades[UpgradeOrder[i]]>>],
     unlockedContent |-> <<>>,
     statistics |-> p.statistics]

\* ProgressionManager.saveProgress: the JSON text, as the object it encodes.
\* The Map becomes an object (its entries in insertion order), the Set an array.
saveProgress(p) ==
    [totalRuns |-> p.totalRuns, bestRun |-> p.bestRun, resources |-> p.resources,
     metaUpgrades |-> [i \in 1..Len(UpgradeOrder) |->
                         <<UpgradeOrder[i], p.metaUpgrades[UpgradeOrder[i]]>>],
     unlockedContent |-> SetToSeq(p.unlockedContent),
     statistics |-> p.statistics]

\* ProgressionManager.calculateDifficulty, in hundredths
calculateDifficulty(p) ==
    LET baseMultiplier == 100 + p.totalRuns * 10
        upgradeOffset ==
            SeqSum([i \in 1..Len(UpgradeOrder) |->
                      UpgradeDef(UpgradeOrder[i]).value
                        * p.metaUpgrades[UpgradeOrder[i]].currentLevel])
    IN Max(100, baseMultiplier - upgradeOffset)

\* ProgressionManager.startNewRun: the new currentRun
startNewRun(p, time) ==
    [started |-> TRUE, startTime |-> time, endTime |-> 0, enemiesDefeated |-> 0,
     damageDealt |-> 0, damageTaken |-> 0, resourcesGained |-> 0,
     result |-> "DEFEAT", difficulty |-> calculateDifficulty(p), wave |-> 1]

\* a faulty variant of calculateRunReward: the resource-gain upgrade is not
\* applied
calculateRunRewardFlat(run, upgrades) ==
    IF ~run.started THEN 0
    ELSE run.wave * 50 + run.enemiesDefeated * 10 + run.difficulty
           + (IF run.result = "VICTORY" THEN 500 ELSE 0)

\* ProgressionManager.calculateRunReward
calculateRunReward(run, upgrades) ==
    IF ~run.started THEN 0
    ELSE LET baseReward == run.wave * 50
             enemyBonus == run.enemiesDefeated * 10
             difficultyBonus == run.difficulty
             victoryBonus == IF run.result = "VICTORY" THEN 500 ELSE 0
         IN FloorDiv((baseReward + enemyBonus + difficultyBonus + victoryBonus)
                       * (100 + getMetaUpgradeEffect(upgrades, "RESOURCE_GAIN")), 100)

\* a faulty variant of beatsBestRun: equal waves never replace
beatsBestRunByWave(run, best) ==
    \/ ~best.started
    \/ run.wave > best.wave

\* the bestRun test of endRun
beatsBestRun(run, best) ==
    \/ ~best.started
    \/ run.wave > best.wave
    \/ (run.wave = best.wave /\ run.resourcesGained > best.resourcesGained)

\* a faulty variant of canPurchase: the test of the balance left out
canPurchaseOnCredit(p, upgradeId) ==
    ~(\/ upgradeId \notin DOMAIN p.metaUpgrades
      \/ p.metaUpgrades[upgradeId].currentLevel >= UpgradeDef(upgradeId).maxLevel)

\* a faulty variant of canPurchase: the test of the maximum level left out
canPurchaseAnyLevel(p, upgradeId) ==
    ~(\/ upgradeId \notin DOMAIN p.metaUpgrades
      \/ p.resources < p.metaUpgrades[upgradeId].cost)

\* the guard of ProgressionManager.purchaseUpgrade: TRUE when it goes on
canPurchase(p, upgradeId) ==
    ~(\/ upgradeId \notin DOMAIN p.metaUpgrades
      \/ p.metaUpgrades[upgradeId].currentLevel >= UpgradeDef(upgradeId).maxLevel
      \/ p.resources < p.metaUpgrades[upgradeId].cost)

\* ProgressionManager.purchaseUpgrade: the progress after a purchase that
\* goes on
purchased(p, upgradeId) ==
    [p EXCEPT !.resources = @ - p.metaUpgrades[upgradeId].cost,
              !.metaUpgrades[upgradeId].currentLevel = @ + 1,
              !.metaUpgrades[upgradeId].cost = nextCost(@)]

\* ProgressionManager.endRun on a run that exists: the finalized run and the
\* progress it is folded into
endRun(p, cur, res, time) ==
    LET run == [cur EXCEPT !.endTime = time, !.result = res]
        st == p.statistics
    IN [run |-> run,
        progress |->
          [p EXCEPT
             !.totalRuns = @ + 1,
             !.statistics =
                [totalEnemiesDefeated |-> st.totalEnemiesDefeated + run.enemiesDefeated,
                 totalDamageDealt |-> st.totalDamageDealt + run.damageDealt,
                 totalDamageTaken |-> st.totalDamageTaken + run.damageTaken,
                 totalResourcesGained |-> st.totalResourcesGained + run.resourcesGained,
                 totalPlayTime |-> st.totalPlayTime + (run.endTime - run.startTime)],
             !.bestRun = IF beatsBestRun(run, @) THEN run ELSE @,
             !.resources = @ + calculateRunReward(run, p.metaUpgrades)]]

\* ProgressionManager.loadProgress followed by initializeMetaUpgrades: the
\* saved object read back, its metaUpgrades entries turned into a Map again
loadProgress(items) ==
    IF items = <<>> THEN FreshProgress
    ELSE LET stored == items[1] IN
         [totalRuns |-> stored.totalRuns, bestRun |-> stored.bestRun,
          resources |-> stored.resources,
          metaUpgrades |-> [id \in {stored.metaUpgrades[i][1] :
                                      i \in 1..Len(stored.metaUpgrades)} |->
                              LET i == CHOOSE j \in 1..Len(stored.metaUpgrades) :
                                         stored.metaUpgrades[j][1] = id
                              IN stored.metaUpgrades[i][2]],
          unlockedContent |-> {stored.unlockedContent[i] :
                                 i \in 1..Len(stored.unlockedContent)},
          statistics |-> stored.statistics]

-----------------------------------------------------------------------------
(* Inputs: the loadouts and upgrade levels a session starts combat with,   *)
(* and the enemies handed to addEnemy                                      *)

NoGear == [sl \in GearSlotSet |-> None]

FullGear == [sl \in GearSlotSet |->
               CASE sl = "HEAD" -> "leatherHelmet"
                 [] sl = "WEAPON" -> "basicSword"
                 [] sl = "OFFHAND" -> "basicShield"
                 [] OTHER -> None]

NoPassives == <<None, None, None>>

\* SkillManager's constructor: Basic Attack auto-equipped in slot 0
DefaultSkillSlots == <<"basicAttack", None, None, None>>

SomeLevels == [id \in UpgradeIds |->
                 CASE id = "damage-boost" -> 1
                   [] id = "health-boost" -> 1
                   [] id = "defense-boost" -> 2
                   [] id = "resource-gain" -> 1]

Builds ==
    {[skills |-> DefaultSkillSlots, gear |-> NoGear, passives |-> NoPassives,
      levels |-> NoLevels],
     [skills |-> <<None, None, None, None>>, gear |-> NoGear,
      passives |-> <<"lifeSteal", None, None>>, levels |-> NoLevels],
     [skills |-> <<"heal", "basicAttack", None, None>>, gear |-> NoGear,
      passives |-> NoPassives, levels |-> NoLevels],
     [skills |-> <<"powerStrike", None, None, None>>, gear |-> FullGear,
      passives |-> <<"toughness", None, None>>, levels |-> SomeLevels]}

\* <<level, x, currentHealth>>: an enemy of that level as spawnEnemy builds
\* it, standing at x tenths, with currentHealth whole points of health left
EnemyInputs == {<<1, 12, 50>>, <<1, -8, 50>>, <<11, 8, 150>>, <<116, 8, 1>>}

EnemyFrom(in) ==
    [spawnEnemy(in[1], in[2]) EXCEPT !.stats.currentHealth = Scale * in[3]]

-----------------------------------------------------------------------------
(* The combat engine: CombatManager driven by Game *)

\* new CombatManager(player, ...): applyGearStats, then applyPermanentPassives
constructPlayer(player, loadout, passives) ==
    applyPermanentPassives(applyGearStats(player, loadout), passives)

\* Game.startCombat up to the construction of the CombatManager, for a
\* player entity created by Game.createPlayerEntity; ins are the enemies
\* already handed to addEnemy
InitWith(b, ins) ==
    /\ now = 0
    /\ progress = [FreshProgress EXCEPT !.metaUpgrades = UpgradesAt(b.levels)]
    /\ storage = IF b.levels = NoLevels THEN <<>>
                 ELSE <<saveProgress([FreshProgress EXCEPT
                                        !.metaUpgrades = UpgradesAt(b.levels)])>>
    /\ currentRun = startNewRun(progress, 0)
    /\ skillSlots = b.skills
    /\ skillCooldown = [id \in SkillIds |-> 0]
    /\ passiveSlots = b.passives
    /\ gearLoadout = b.gear
    /\ ent = [id \in 0..Len(ins) |->
                IF id = Player
                THEN constructPlayer(createPlayerEntity(UpgradesAt(b.levels)),
                                     b.gear, b.passives)
                ELSE EnemyFrom(ins[id])]
    /\ enemies = [i \in 1..Len(ins) |-> i]
    /\ currentState = "WAITING"
    /\ rounds = <<>>
    /\ currentRound = 0
    /\ actionQueue = <<>>
    /\ lastRoundTime = 0
    /\ result = NoResult
    /\ pc = "idle"
    /\ ret = NoCall

Init == \E b \in Builds : InitWith(b, <<>>)

\* CombatManager.addEnemy(enemy).  Enemies join before the fight starts, as
\* in Game.startCombat.
AddEnemy ==
    /\ pc = "idle"
    /\ currentState = "WAITING"
    /\ Cardinality(DOMAIN ent) - 1 < MaxEnemies
    /\ \E in \in EnemyInputs :
         LET id == Cardinality(DOMAIN ent)
         IN /\ ent' = ent @@ (id :> EnemyFrom(in))
            /\ enemies' = Append(enemies, id)
    /\ UNCHANGED <<currentState, rounds, currentRound, actionQueue, lastRoundTime,
                   result, pc, now, skillSlots, skillCooldown, passiveSlots,
                   gearLoadout, currentRun, progress, storage, ret>>

\* CombatManager.startCombat(), called on an engine that is not fighting
StartCombat ==
    /\ pc = "idle"
    /\ currentState # "IN_PROGRESS"
    /\ currentState' = "IN_PROGRESS"
    /\ lastRoundTime' = now
    /\ currentRound' = 1
    /\ UNCHANGED <<ent, enemies, rounds, actionQueue, result, pc, now, skillSlots,
                   skillCooldown, passiveSlots, gearLoadout, currentRun, progress,
                   storage, ret>>

\* a faulty variant of UpdateBegin: a round is due only once more than
\* ROUND_DURATION has passed
UpdateBeginLate ==
    /\ pc = "idle"
    /\ IF currentState # "IN_PROGRESS"
       THEN UNCHANGED vars
       ELSE /\ pc' = "actions"
            /\ IF now - lastRoundTime > ROUND_DURATION
               THEN /\ actionQueue' = processRound(ent, enemies, skillSlots, skillCooldown)
                    /\ rounds' = Append(rounds, [roundNumber |-> currentRound,
                                                 actions |-> actionQueue',
                                                 timestamp |-> now])
                    /\ currentRound' = currentRound + 1
                    /\ lastRoundTime' = now
                    /\ skillCooldown' = updateCooldowns(skillSlots, skillCooldown)
               ELSE UNCHANGED <<actionQueue, rounds, currentRound, lastRoundTime,
                                skillCooldown>>
            /\ UNCHANGED <<ent, enemies, currentState, result, now, skillSlots,
                           passiveSlots, gearLoadout, currentRun, progress, storage, ret>>

\* CombatManager.update(), up to the call of processActions
UpdateBegin ==
    /\ pc = "idle"
    /\ IF currentState # "IN_PROGRESS"
       THEN UNCHANGED vars
       ELSE /\ pc' = "actions"
            /\ IF now - lastRoundTime >= ROUND_DURATION
               THEN /\ actionQueue' = processRound(ent, enemies, skillSlots, skillCooldown)
                    /\ rounds' = Append(rounds, [roundNumber |-> currentRound,
                                                 actions |-> actionQueue',
                                                 timestamp |-> now])
                    /\ currentRound' = currentRound + 1
                    /\ lastRoundTime' = now
                    /\ skillCooldown' = updateCooldowns(skillSlots, skillCooldown)
               ELSE UNCHANGED <<actionQueue, rounds, currentRound, lastRoundTime,
                                skillCooldown>>
            /\ UNCHANGED <<ent, enemies, currentState, result, now, skillSlots,
                           passiveSlots, gearLoadout, currentRun, progress, storage, ret>>

\* a faulty variant of ProcessAction: the queue is worked from its end
ProcessActionFromEnd ==
    /\ pc = "actions"
    /\ actionQueue # <<>>
    /\ LET w == resolveAction([ent |-> ent, enemies |-> enemies, run |-> currentRun,
                               cds |-> skillCooldown],
                              progress.metaUpgrades, actionQueue[Len(actionQueue)])
       IN /\ ent' = w.ent
          /\ enemies' = w.enemies
          /\ currentRun' = w.run
          /\ skillCooldown' = w.cds
    /\ actionQueue' = SubSeq(actionQueue, 1, Len(actionQueue) - 1)
    /\ UNCHANGED <<currentState, rounds, currentRound, lastRoundTime, result, pc, now,
                   skillSlots, passiveSlots, gearLoadout, progress, storage, ret>>

\* CombatManager.processActions: one iteration of its loop
ProcessAction ==
    /\ pc = "actions"
    /\ actionQueue # <<>>
    /\ LET w == resolveAction([ent |-> ent, enemies |-> enemies, run |-> currentRun,
                               cds |-> skillCooldown],
                              progress.metaUpgrades, Head(actionQueue))
       IN /\ ent' = w.ent
          /\ enemies' = w.enemies
          /\ currentRun' = w.run
          /\ skillCooldown' = w.cds
    /\ actionQueue' = Tail(actionQueue)
    /\ UNCHANGED <<currentState, rounds, currentRound, lastRoundTime, result, pc, now,
                   skillSlots, passiveSlots, gearLoadout, progress, storage, ret>>

\* CombatManager.update(), after processActions: the terminal check
UpdateEnd ==
    /\ pc = "actions"
    /\ actionQueue = <<>>
    /\ pc' = "idle"
    /\ IF ent[Player].stats.currentHealth <= 0 \/ AllEnemiesDown(ent, enemies)
       THEN LET r == checkCombatEnd(ent, enemies)
            IN IF r = NoResult
               THEN UNCHANGED <<currentState, result>>
               ELSE /\ currentState' = r.state
                    /\ result' = r
       ELSE UNCHANGED <<currentState, result>>
    /\ UNCHANGED <<ent, enemies, rounds, currentRound, actionQueue, lastRoundTime, now,
                   skillSlots, skillCooldown, passiveSlots, gearLoadout, currentRun,
                   progress, storage, ret>>

\* Date.now() moves on between two frames of a fight, by half a round at a
\* time.  Game.animate calls update every frame, so a round that is due is
\* generated before the clock moves on.
Tick ==
    /\ pc = "idle"
    /\ currentState = "IN_PROGRESS"
    /\ now - lastRoundTime < ROUND_DURATION
    /\ now < MaxRounds * ROUND_DURATION
    /\ now' = now + ROUND_DURATION \div 2
    /\ UNCHANGED <<ent, enemies, currentState, rounds, currentRound, actionQueue,
                   lastRoundTime, result, pc, skillSlots, skillCooldown, passiveSlots,
                   gearLoadout, currentRun, progress, storage, ret>>

Next ==
    \/ AddEnemy
    \/ StartCombat
    \/ UpdateBegin
    \/ ProcessAction
    \/ UpdateEnd
    \/ Tick

Spec == Init /\ [][Next]_vars

-----------------------------------------------------------------------------
(* The duel of the end-to-end scenario: the base player without skills     *)
(* against one level-1 enemy standing out of attack range, on either side  *)

MaxDuelGap == 4

Unskilled == [skills |-> <<None, None, None, None>>, gear |-> NoGear,
              passives |-> NoPassives, levels |-> NoLevels]

DuelInit ==
    \E gap \in 1..MaxDuelGap, side \in {-1, 1} :
        InitWith(Unskilled, << <<1, side * (ATTACK_RANGE + gap), 50>> >>)

DuelNext ==
    \/ StartCombat
    \/ UpdateBegin
    \/ ProcessAction
    \/ UpdateEnd
    \/ Tick

\* update is called every frame and the clock keeps moving
DuelSpec ==
    /\ DuelInit
    /\ [][DuelNext]_vars
    /\ WF_vars(DuelNext)
    /\ SF_vars(Tick)

-----------------------------------------------------------------------------
(* Short fights: every build against one or two weakened enemies           *)

\* the enemies handed to addEnemy before startCombat
BrawlEnemies ==
    {<< <<1, 12, 20>> >>,
     << <<1, 12, 20>>, <<1, -8, 10>> >>,
     << <<16, 8, 3>> >>,
     << <<116, 8, 1>> >>}

BrawlInit == \E b \in Builds, ins \in BrawlEnemies : InitWith(b, ins)

\* update is called every frame and the clock keeps moving
BrawlSpec ==
    /\ BrawlInit
    /\ [][DuelNext]_vars
    /\ WF_vars(DuelNext)
    /\ SF_vars(Tick)

-----------------------------------------------------------------------------
(* Skills of several effects.  Skill.effects is an array, executeSkill maps *)
(* every element of it to an effect of the SkillResult, and processActions  *)
(* hands every effect of the result to handleSkillEffect.  The registered   *)
(* skills carry one effect each; here the skill of a SKILL action carries   *)
(* its effect one to MaxEffects times.                                      *)

MaxEffects == 2

RECURSIVE Repeated(_, _)
Repeated(effects, k) ==
    IF k = 0 THEN <<>> ELSE effects \o Repeated(effects, k - 1)

\* one iteration of the loop of processActions, for a skill that carries k
\* copies of its effect
resolveActionOf(w, upgrades, action, k) ==
    IF action.type = "SKILL"
    THEN LET r == executeSkill(action.skill, w.cds[action.skill], action.source,
                               <<action.target>>, w.ent)
             w1 == [w EXCEPT !.cds[action.skill] = r.cooldown,
                             !.ent[action.source].stats.currentEnergy = r.energy]
         IN IF r.success
            THEN ApplySkillEffects(w1, upgrades, action.source, Repeated(r.effects, k))
            ELSE w
    ELSE resolveAction(w, upgrades, action)

ProcessActionOf ==
    /\ pc = "actions"
    /\ actionQueue # <<>>
    /\ \E k \in 1..MaxEffects :
         LET w == resolveActionOf([ent |-> ent, enemies |-> enemies, run |-> currentRun,
                                   cds |-> skillCooldown],
                                  progress.metaUpgrades, Head(actionQueue), k)
         IN /\ ent' = w.ent
            /\ enemies' = w.enemies
            /\ currentRun' = w.run
            /\ skillCooldown' = w.cds
    /\ actionQueue' = Tail(actionQueue)
    /\ UNCHANGED <<currentState, rounds, currentRound, lastRoundTime, result, pc, now,
                   skillSlots, passiveSlots, gearLoadout, progress, storage, ret>>

ComboNext ==
    \/ StartCombat
    \/ UpdateBegin
    \/ ProcessActionOf
    \/ UpdateEnd
    \/ Tick

ComboSpec == BrawlInit /\ [][ComboNext]_vars

-----------------------------------------------------------------------------
(* The skill manager called directly: executeSkill with any registered     *)
(* skill and any targets, updateCooldowns, and the gear and permanent      *)
(* passives applied again by every new CombatManager built for the player  *)

MaxEnergyCap == 130

\* the target lists handed to executeSkill
TargetInputs == {<<>>, <<1>>, <<1, 2>>, <<Player>>}

SkillInit ==
    \E b \in Builds : InitWith(b, << <<1, 12, 50>>, <<11, 8, 150>> >>)

\* SkillManager.executeSkill(skill, source, targets), the player the source
ExecuteSkill ==
    \E id \in SkillIds, targets \in TargetInputs :
        LET r == executeSkill(id, skillCooldown[id], Player, targets, ent)
        IN /\ skillCooldown' = [skillCooldown EXCEPT ![id] = r.cooldown]
           /\ ent' = [ent EXCEPT ![Player].stats.currentEnergy = r.energy]
           /\ ret' = Call("executeSkill", <<id, targets>>, r.success, r.effects)
           /\ UNCHANGED <<engineVars, now, loadoutVars, progressVars>>

\* SkillManager.updateCooldowns()
UpdateCooldowns ==
    /\ skillCooldown' = updateCooldowns(skillSlots, skillCooldown)
    /\ ret' = Call("updateCooldowns", <<>>, FALSE, <<>>)
    /\ UNCHANGED <<ent, engineVars, now, loadoutVars, progressVars>>

\* new CombatManager(player, ...) for the next fight of the same player
Construct ==
    /\ ent[Player].stats.maxEnergy < MaxEnergyCap * Scale
    /\ ent' = [ent EXCEPT ![Player] = constructPlayer(@, gearLoadout, passiveSlots)]
    /\ ret' = Call("construct", <<>>, FALSE, <<>>)
    /\ UNCHANGED <<engineVars, now, skillCooldown, loadoutVars, progressVars>>

SkillNext ==
    \/ ExecuteSkill
    \/ UpdateCooldowns
    \/ Construct

SkillSpec == SkillInit /\ [][SkillNext]_vars

-----------------------------------------------------------------------------
(* The skill and passive loadouts edited directly *)

\* the slot indexes handed to the loadout calls: every slot, and the
\* neighbours of the range on both sides
SlotInputs(maxSlots) == (-1)..maxSlots

\* SkillManager.equipSkill(skillId, slotIndex)
EquipSkill ==
    \E id \in SkillIds \cup {"unknown"}, slotIndex \in SlotInputs(SkillMaxSlots) :
        /\ skillSlots' = IF equipSkillOk(id, slotIndex)
                         THEN EquipInto(skillSlots, id, slotIndex)
                         ELSE skillSlots
        /\ ret' = Call("equipSkill", <<id, slotIndex>>, equipSkillOk(id, slotIndex), <<>>)
        /\ UNCHANGED <<ent, engineVars, now, skillCooldown, passiveSlots, gearLoadout,
                       progressVars>>

\* SkillManager.unequipSkill(slotIndex)
UnequipSkill ==
    \E slotIndex \in SlotInputs(SkillMaxSlots) :
        /\ skillSlots' = IF unequipSkillOk(slotIndex)
                         THEN [skillSlots EXCEPT ![slotIndex + 1] = None]
                         ELSE skillSlots
        /\ ret' = Call("unequipSkill", <<slotIndex>>, unequipSkillOk(slotIndex), <<>>)
        /\ UNCHANGED <<ent, engineVars, now, skillCooldown, passiveSlots, gearLoadout,
                       progressVars>>

\* PassiveManager.equipPassive(passiveId, slotIndex)
EquipPassive ==
    \E id \in PassiveIds \cup {"unknown"}, slotIndex \in SlotInputs(PassiveMaxSlots) :
        /\ passiveSlots' = IF equipPassiveOk(id, slotIndex)
                           THEN EquipInto(passiveSlots, id, slotIndex)
                           ELSE passiveSlots
        /\ ret' = Call("equipPassive", <<id, slotIndex>>, equipPassiveOk(id, slotIndex), <<>>)
        /\ UNCHANGED <<ent, engineVars, now, skillCooldown, skillSlots, gearLoadout,
                       progressVars>>

\* PassiveManager.unequipPassive(slotIndex)
UnequipPassive ==
    \E slotIndex \in SlotInputs(PassiveMaxSlots) :
        /\ passiveSlots' = IF unequipPassiveOk(slotIndex)
                           THEN [passiveSlots EXCEPT ![slotIndex + 1] = None]
                           ELSE passiveSlots
        /\ ret' = Call("unequipPassive", <<slotIndex>>, unequipPassiveOk(slotIndex), <<>>)
        /\ UNCHANGED <<ent, engineVars, now, skillCooldown, skillSlots, gearLoadout,
                       progressVars>>

\* the managers as their constructors leave them
LoadoutInit == InitWith([skills |-> DefaultSkillSlots, gear |-> NoGear,
                         passives |-> NoPassives, levels |-> NoLevels], <<>>)

LoadoutNext ==
    \/ EquipSkill
    \/ UnequipSkill
    \/ EquipPassive
    \/ UnequipPassive

LoadoutSpec == LoadoutInit /\ [][LoadoutNext]_vars

-----------------------------------------------------------------------------
(* The passive triggers checked directly *)

\* the triggers and the context values handed to checkTrigger: no value, 0,
\* and 10 points
TriggerInputs == {"ON_ATTACK", "PERMANENT", "ON_KILL"}

ValueInputs == {<<>>, <<0>>, <<10 * Scale>>}

\* PassiveManager.checkTrigger(trigger, source, target, value): one result
\* per triggered passive, each with the values of its effects
CheckTrigger ==
    \E trigger \in TriggerInputs, source \in DOMAIN ent, value \in ValueInputs :
        \E triggered \in checkTrigger(passiveSlots, trigger) :
            /\ ret' = Call("checkTrigger", <<trigger, source, value>>, FALSE,
                           [i \in 1..Len(triggered) |->
                              [passive |-> triggered[i],
                               values |-> TriggeredValues(<<triggered[i]>>,
                                                          ent[source].stats.level, value)]])
            /\ UNCHANGED <<ent, engineVars, now, skillCooldown, loadoutVars, progressVars>>

\* the player of level 1 and enemies of levels 11 and 116
TriggerInit ==
    InitWith([skills |-> DefaultSkillSlots, gear |-> NoGear, passives |-> NoPassives,
              levels |-> NoLevels], << <<11, 8, 150>>, <<116, 8, 1>> >>)

TriggerNext ==
    \/ EquipPassive
    \/ UnequipPassive
    \/ CheckTrigger

TriggerSpec == TriggerInit /\ [][TriggerNext]_vars

-----------------------------------------------------------------------------
(* The gear manager called directly *)

\* GearManager.equipGear(gearId, slot)
EquipGear ==
    \E id \in GearIds \cup {"unknown"}, slot \in GearSlotSet :
        /\ gearLoadout' = IF equipGearOk(id, slot)
                          THEN [gearLoadout EXCEPT ![slot] = id]
                          ELSE gearLoadout
        /\ ret' = Call("equipGear", <<id, slot>>, equipGearOk(id, slot), <<>>)
        /\ UNCHANGED <<ent, engineVars, now, skillSlots, skillCooldown, passiveSlots,
                       progressVars>>

\* GearManager.unequipGear(slot)
UnequipGear ==
    \E slot \in GearSlotSet :
        /\ gearLoadout' = IF unequipGearOk(gearLoadout, slot)
                          THEN [gearLoadout EXCEPT ![slot] = None]
                          ELSE gearLoadout
        /\ ret' = Call("unequipGear", <<slot>>, unequipGearOk(gearLoadout, slot), <<>>)
        /\ UNCHANGED <<ent, engineVars, now, skillSlots, skillCooldown, passiveSlots,
                       progressVars>>

GearNext ==
    \/ EquipGear
    \/ UnequipGear

GearSpec == Init /\ [][GearNext]_vars

-----------------------------------------------------------------------------
(* The progression ledger called directly *)

MaxRuns == 1
MaxWave == 2
MaxEvents == 1

\* ProgressionManager.startNewRun()
StartNewRun ==
    /\ progress.totalRuns < MaxRuns
    /\ currentRun' = startNewRun(progress, now)
    /\ ret' = Call("startNewRun", <<>>, FALSE, <<>>)
    /\ UNCHANGED <<ent, engineVars, now, skillCooldown, loadoutVars, progress, storage>>

\* ProgressionManager.advanceWave()
AdvanceWave ==
    /\ currentRun.wave < MaxWave
    /\ currentRun' = IF ~currentRun.started THEN currentRun
                     ELSE [currentRun EXCEPT !.wave = @ + 1]
    /\ ret' = Call("advanceWave", <<>>, FALSE, <<>>)
    /\ UNCHANGED <<ent, engineVars, now, skillCooldown, loadoutVars, progress, storage>>

\* the events the engine reports: 10 points of damage dealt, a level-1 enemy
\* defeated (damage taken is added to its own counter as damage dealt is)
EventInputs == {<<"damage_dealt", 10 * Scale>>, <<"enemy_defeated", 1>>}

\* the events a run has tracked
EventCount(run) ==
    run.damageDealt \div (10 * Scale) + run.enemiesDefeated

\* ProgressionManager.trackCombatEvent(type, value)
TrackCombatEvent ==
    \E ev \in EventInputs :
        /\ EventCount(currentRun) < MaxEvents
        /\ currentRun' = trackCombatEvent(currentRun, progress.metaUpgrades, ev[1], ev[2])
        /\ ret' = Call("trackCombatEvent", ev, FALSE, <<>>)
        /\ UNCHANGED <<ent, engineVars, now, skillCooldown, loadoutVars, progress, storage>>

\* ProgressionManager.endRun(result)
EndRun ==
    \E res \in {"VICTORY", "DEFEAT"} :
        /\ progress.totalRuns < MaxRuns
        /\ IF ~currentRun.started
           THEN UNCHANGED <<currentRun, progress, storage>>
           ELSE LET r == endRun(progress, currentRun, res, now)
                IN /\ currentRun' = r.run
                   /\ progress' = r.progress
                   /\ storage' = <<saveProgress(r.progress)>>
        /\ ret' = Call("endRun", <<res>>, FALSE, <<>>)
        /\ UNCHANGED <<ent, engineVars, now, skillCooldown, loadoutVars>>

\* the ids handed to purchaseUpgrade: two upgrades and an id that is none
PurchaseInputs == {"damage-boost", "resource-gain", "unknown"}

\* ProgressionManager.purchaseUpgrade(upgradeId)
PurchaseUpgrade ==
    \E id \in PurchaseInputs :
        /\ IF canPurchase(progress, id)
           THEN /\ progress' = purchased(progress, id)
                /\ storage' = <<saveProgress(progress')>>
                /\ ret' = Call("purchaseUpgrade", <<id>>, TRUE, <<>>)
           ELSE /\ ret' = Call("purchaseUpgrade", <<id>>, FALSE, <<>>)
                /\ UNCHANGED <<progress, storage>>
        /\ UNCHANGED <<ent, engineVars, now, skillCooldown, loadoutVars, currentRun>>

\* the record an earlier session leaves in localStorage: four victorious
\* runs to wave 2, rewards spent on four levels of resource-gain
VeteranProgress ==
    LET won(p) == endRun(p, [startNewRun(p, 0) EXCEPT !.wave = 2], "VICTORY", 0).progress
        twice(p) == purchased(purchased(p, "resource-gain"), "resource-gain")
    IN won(won(twice(won(twice(won(FreshProgress))))))

\* new ProgressionManager() in a browser whose localStorage is items
ProgStart(items) ==
    /\ now = 0
    /\ storage = items
    /\ progress = loadProgress(storage)
    /\ currentRun = NoRun
    /\ skillSlots = DefaultSkillSlots
    /\ skillCooldown = [id \in SkillIds |-> 0]
    /\ passiveSlots = NoPassives
    /\ gearLoadout = NoGear
    /\ ent = [id \in {Player} |-> createPlayerEntity(DefaultUpgrades)]
    /\ enemies = <<>>
    /\ currentState = "WAITING"
    /\ rounds = <<>>
    /\ currentRound = 0
    /\ actionQueue = <<>>
    /\ lastRoundTime = 0
    /\ result = NoResult
    /\ pc = "idle"
    /\ ret = NoCall

\* new ProgressionManager(), in a browser without a saved record or with one
ProgInit == \E items \in {<<>>, <<saveProgress(VeteranProgress)>>} : ProgStart(items)

ProgNext ==
    \/ StartNewRun
    \/ AdvanceWave
    \/ TrackCombatEvent
    \/ EndRun
    \/ PurchaseUpgrade

ProgSpec == ProgInit /\ [][ProgNext]_vars

-----------------------------------------------------------------------------
(* Several runs played in one session *)

MaxSessionRuns == 2

\* ProgressionManager.startNewRun(), run after run
StartNextRun ==
    /\ progress.totalRuns < MaxSessionRuns
    /\ currentRun' = startNewRun(progress, now)
    /\ ret' = Call("startNewRun", <<>>, FALSE, <<>>)
    /\ UNCHANGED <<ent, engineVars, now, skillCooldown, loadoutVars, progress, storage>>

\* ProgressionManager.endRun(result), run after run; currentRun stays set, so
\* the call may come again for the same run
EndNextRun ==
    \E res \in {"VICTORY", "DEFEAT"} :
        /\ progress.totalRuns < MaxSessionRuns
        /\ IF ~currentRun.started
           THEN UNCHANGED <<currentRun, progress, storage>>
           ELSE LET r == endRun(progress, currentRun, res, now)
                IN /\ currentRun' = r.run
                   /\ progress' = r.progress
                   /\ storage' = <<saveProgress(r.progress)>>
        /\ ret' = Call("endRun", <<res>>, FALSE, <<>>)
        /\ UNCHANGED <<ent, engineVars, now, skillCooldown, loadoutVars>>

SessionNext ==
    \/ StartNextRun
    \/ AdvanceWave
    \/ TrackCombatEvent
    \/ EndNextRun

\* the record an earlier session leaves after one victorious run to wave 1
\* (reward 650) and two levels of resource-gain bought from it
SeasonedProgress ==
    purchased(purchased(endRun(FreshProgress, startNewRun(FreshProgress, 0),
                               "VICTORY", 0).progress,
                        "resource-gain"), "resource-gain")

\* new ProgressionManager(), in a browser without a saved record or with
\* that of the earlier session
SessionInit == \E items \in {<<>>, <<saveProgress(SeasonedProgress)>>} : ProgStart(items)

SessionSpec == SessionInit /\ [][SessionNext]_vars

-----------------------------------------------------------------------------
(* The progress record saved, and read back by the next session *)

MaxStoredLevel == 1

\* the unlockedContent arrays a saved record may hold
ContentInputs == {<<>>, <<"hard-mode">>, <<"hard-mode", "skins">>,
                  <<"skins", "hard-mode">>}

\* a record found in localStorage: every upgrade bought up to MaxStoredLevel
\* times, some content unlocked, some resources left
StoredInputs ==
    {[totalRuns |-> 0, bestRun |-> NoRun, resources |-> r,
      metaUpgrades |-> [i \in 1..Len(UpgradeOrder) |->
                          <<UpgradeOrder[i], UpgradesAt(lv)[UpgradeOrder[i]]>>],
      unlockedContent |-> u,
      statistics |-> FreshProgress.statistics] :
        lv \in [UpgradeIds -> 0..MaxStoredLevel], u \in ContentInputs,
        r \in {0, 1000}}

StoreInit == \E rec \in StoredInputs : ProgStart(<<rec>>)

\* the page loaded again: new ProgressionManager()
Reload ==
    /\ progress' = loadProgress(storage)
    /\ currentRun' = NoRun
    /\ ret' = Call("reload", <<>>, FALSE, <<>>)
    /\ UNCHANGED <<ent, engineVars, now, skillCooldown, loadoutVars, storage>>

StoreNext ==
    \/ PurchaseUpgrade
    \/ Reload

StoreSpec == StoreInit /\ [][StoreNext]_vars

-----------------------------------------------------------------------------
(* Claims about the combat engine *)

TerminalStates == {"VICTORY", "DEFEAT"}

\* an iteration of processActions is resolving the action at the head of
\* the queue
Resolving(type) ==
    /\ pc = "actions"
    /\ actionQueue # <<>>
    /\ Head(actionQueue).type = type
    /\ actionQueue' = Tail(actionQueue)

\* C1: every combat entity keeps 0 <= currentHealth <= maxHealth through gear,
\* permanent-passive and meta-upgrade application, attack resolution and heal
\* resolution.
C1_HealthWithinBounds ==
    \A id \in DOMAIN ent :
        /\ 0 <= ent[id].stats.currentHealth
        /\ ent[id].stats.currentHealth <= ent[id].stats.maxHealth

\* C3: the terminal states are absorbing, and the state only ever changes
\* WAITING -> IN_PROGRESS -> {VICTORY, DEFEAT}.
C3_TerminalAbsorbing ==
    [][/\ currentState \in TerminalStates => currentState' = currentState
       /\ currentState' # currentState =>
            \/ currentState = "WAITING" /\ currentState' = "IN_PROGRESS"
            \/ currentState = "IN_PROGRESS" /\ currentState' \in TerminalStates]_vars

\* C4: a resolved Attack lowers the target's health, floored at 0, by
\* max(1, attacker.attack - target.defense), which is at least 1.
C4_AttackBaseDamage ==
    [][Resolving("ATTACK") =>
         LET a == Head(actionQueue)
             diff == ent[a.source].stats.attack - ent[a.target].stats.defense
             base == IF diff > 1 * Scale THEN diff ELSE 1 * Scale
             left == ent[a.target].stats.currentHealth - base
         IN /\ base >= 1 * Scale
            /\ ent'[a.target].stats.currentHealth = IF left > 0 THEN left ELSE 0]_vars

\* C4 witness: one Attack whose attack does not exceed the defense (the enemy's
\* 10 against the player's 10) has been resolved and took 1 point of health
C4_Witness ==
    /\ currentRun.damageTaken = 1 * Scale
    /\ ent[Player].stats.attack = 15 * Scale
    /\ ent[Player].stats.currentHealth = ent[Player].stats.maxHealth - 1 * Scale

\* i comes before j in the order of processRound: higher speed first, equal
\* speeds in the original order (the player, then the enemies as spawned)
ActsBefore(i, j) ==
    \/ ent[i].stats.speed > ent[j].stats.speed
    \/ (ent[i].stats.speed = ent[j].stats.speed /\ i < j)

IsSuffix(q, acts) ==
    /\ Len(q) <= Len(acts)
    /\ q = SubSeq(acts, Len(acts) - Len(q) + 1, Len(acts))

\* C5: the actions of every round are generated in descending order of speed,
\* equal speeds in the original order, and are resolved in that order: what is
\* left to resolve is always the tail of the round's actions.
C5_SpeedOrder ==
    /\ \A r \in 1..Len(rounds) :
         \A i, j \in 1..Len(rounds[r].actions) :
            i < j => ActsBefore(rounds[r].actions[i].source, rounds[r].actions[j].source)
    /\ actionQueue # <<>> =>
         /\ rounds # <<>>
         /\ IsSuffix(actionQueue, rounds[Len(rounds)].actions)

\* C5 witness: speeds [10, 5, 15] (the player, a level-1 and a level-11 enemy)
\* were ordered 15, 10, 5, and a round held two enemies of equal speed
C5_Witness ==
    /\ \E r \in 1..Len(rounds) :
         /\ Len(rounds[r].actions) = 3
         /\ [i \in 1..3 |-> ent[rounds[r].actions[i].source].stats.speed]
              = <<15 * Scale, 10 * Scale, 5 * Scale>>
         /\ [i \in 1..3 |-> rounds[r].actions[i].source] = <<2, 0, 1>>
    /\ actionQueue = <<>>

\* C5 witness of the tie: two enemies of equal speed acted in spawn order
C5_TieWitness ==
    \E r \in 1..Len(rounds) :
        \E i, j \in 1..Len(rounds[r].actions) :
            /\ i < j
            /\ rounds[r].actions[i].source # rounds[r].actions[j].source
            /\ ent[rounds[r].actions[i].source].stats.speed
                 = ent[rounds[r].actions[j].source].stats.speed

\* the experience the enemies defeated in this combat are worth: level x 10
\* for every enemy handed to the engine whose health is down to 0
DefeatedExperience ==
    SeqSum([i \in 1..(Cardinality(DOMAIN ent) - 1) |->
              IF ent[i].stats.currentHealth <= 0 THEN ent[i].stats.level * 10 ELSE 0])

\* C7: on VICTORY the experienceGained of the combat result is the sum of
\* level x 10 over the enemies defeated in the combat.
C7_VictoryExperience ==
    (currentState = "VICTORY" /\ result.state = "VICTORY")
        => result.experienceGained = DefeatedExperience

\* C6: in the duel the engine never ends in DEFEAT, ends in VICTORY only with
\* the enemy's health at 0 and the player's above 0, and does end in VICTORY.
C6_DuelVictory ==
    /\ [](/\ currentState # "DEFEAT"
          /\ currentState = "VICTORY" =>
               /\ ent[1].stats.currentHealth = 0
               /\ ent[Player].stats.currentHealth > 0)
    /\ <>(currentState = "VICTORY")

\* C6 witness: the duel has ended in VICTORY after the enemy landed attacks
C6_Witness ==
    /\ currentState = "VICTORY"
    /\ ent[1].stats.currentHealth = 0
    /\ ent[Player].stats.currentHealth = 95 * Scale
    /\ Len(rounds) >= 5

-----------------------------------------------------------------------------
(* Claims about the skill manager *)

\* C2: every combat entity keeps 0 <= currentEnergy <= maxEnergy through gear
\* application, meta-upgrade application and every sequence of executeSkill
\* calls, successful or not.
C2_EnergyWithinBounds ==
    \A id \in DOMAIN ent :
        /\ 0 <= ent[id].stats.currentEnergy
        /\ ent[id].stats.currentEnergy <= ent[id].stats.maxEnergy

\* C2 witness: the upgraded player, the gear applied, has spent energy on
\* skills until less than the cheapest priced skill costs is left, and the
\* last executeSkill call was refused
C2_Witness ==
    /\ ret.op = "executeSkill"
    /\ ~ret.value
    /\ skillCooldown[ret.args[1]] = 0
    /\ ent[Player].stats.maxEnergy > 100 * Scale
    /\ ent[Player].stats.attack > 25 * Scale
    /\ ent[Player].stats.currentEnergy < 30 * Scale

\* C8: executeSkill on a skill with currentCooldown > 0, or from a source with
\* less energy than the skill costs, returns success = false and no effects,
\* and leaves the source's energy, the skill's cooldown and every target's
\* stats as they were.
C8_ExecuteSkillFailsClosed ==
    [][ret'.op = "executeSkill" =>
         LET id == ret'.args[1]
         IN (\/ skillCooldown[id] > 0
             \/ ent[Player].stats.currentEnergy < Scale * SkillDef[id].energyCost)
              => /\ ret'.value = FALSE
                 /\ ret'.effects = <<>>
                 /\ skillCooldown' = skillCooldown
                 /\ ent' = ent]_vars

\* C8 witness: executeSkill on a skill with currentCooldown = 2, by a source
\* that could pay for it, aimed at two targets, returned success = false
C8_Witness ==
    /\ ret.op = "executeSkill"
    /\ ~ret.value
    /\ ret.args[2] = <<1, 2>>
    /\ skillCooldown[ret.args[1]] = 2
    /\ ent[Player].stats.currentEnergy >= Scale * SkillDef[ret.args[1]].energyCost

-----------------------------------------------------------------------------
(* Claims about the progression ledger *)

\* the reasons purchaseUpgrade(id) has to refuse
PurchaseRefused(id) ==
    IF id \notin UpgradeIds THEN TRUE
    ELSE \/ progress.metaUpgrades[id].currentLevel >= UpgradeDef(id).maxLevel
         \/ progress.resources < progress.metaUpgrades[id].cost

\* C9: purchaseUpgrade with an unknown id, on an upgrade at its maximum level
\* or with fewer resources than the cost returns false and leaves the
\* resource balance and every upgrade's level and cost as they were.
C9_PurchaseFailsClosed ==
    [][(ret'.op = "purchaseUpgrade" /\ PurchaseRefused(ret'.args[1])) =>
         /\ ret'.value = FALSE
         /\ progress'.resources = progress.resources
         /\ progress'.metaUpgrades = progress.metaUpgrades]_vars

\* C9 witness: purchaseUpgrade was refused on an upgrade at its maximum level
\* although the resources cover the cost
C9_Witness ==
    /\ ret.op = "purchaseUpgrade"
    /\ ~ret.value
    /\ ret.args[1] \in UpgradeIds
    /\ progress.metaUpgrades[ret.args[1]].currentLevel = UpgradeDef(ret.args[1]).maxLevel
    /\ progress.resources >= progress.metaUpgrades[ret.args[1]].cost

\* C10: purchaseUpgrade on an upgrade below its maximum level, the resources
\* covering the cost, returns true, lowers the balance by the cost, raises the
\* level by 1, sets the cost to floor(old cost x 1.5) and leaves every other
\* upgrade as it was.
C10_PurchaseSucceeds ==
    [][(ret'.op = "purchaseUpgrade" /\ ~PurchaseRefused(ret'.args[1])) =>
         LET id == ret'.args[1]
             old == progress.metaUpgrades[id]
             new == progress'.metaUpgrades[id]
         IN /\ ret'.value = TRUE
            /\ progress'.resources = progress.resources - old.cost
            /\ new.currentLevel = old.currentLevel + 1
            /\ new.cost = (old.cost * 3) \div 2
            /\ \A other \in UpgradeIds \ {id} :
                  progress'.metaUpgrades[other] = progress.metaUpgrades[other]]_vars

\* C10 witness: a purchase went on and rounded the next cost down
\* (225 x 1.5 = 337.5), another upgrade already bought
C10_Witness ==
    /\ ret.op = "purchaseUpgrade"
    /\ ret.value
    /\ progress.metaUpgrades[ret.args[1]].cost = 337
    /\ \E other \in UpgradeIds \ {ret.args[1]} :
          progress.metaUpgrades[other].currentLevel > 0

-----------------------------------------------------------------------------
(* Claims about the gear manager *)

StatNames == {"attack", "defense", "health", "speed", "energy"}

\* the summed base stat of the equipped items
EquippedBase(f) ==
    SeqSum([i \in 1..Len(GearSlots) |->
              IF gearLoadout[GearSlots[i]] = None THEN 0
              ELSE GearDef[gearLoadout[GearSlots[i]]].baseStats[f]])

\* the equipped pieces of the warrior set
WarriorPieces ==
    Cardinality({sl \in GearSlotSet :
                   /\ gearLoadout[sl] # None
                   /\ GearDef[gearLoadout[sl]].setId = "warrior"})

\* the stat block of the warrior tier with the given threshold
WarriorTier(pieces) ==
    (CHOOSE b \in {GearSetDef["warrior"][i] : i \in 1..Len(GearSetDef["warrior"])} :
        b.pieces = pieces).stats

\* C11: calculateTotalStats adds to the base stats of the equipped items the
\* stat block of every tier of the set whose threshold the equipped pieces
\* reach: the 2-piece block from 2 pieces on, the 4-piece block as well from
\* 4 pieces on, none below 2; and for every number of pieces the tiers taken
\* are those with a threshold <= that number.
C11_SetBonusTiers ==
    /\ \A f \in StatNames :
          calculateTotalStats(gearLoadout)[f]
            = EquippedBase(f)
                + (IF WarriorPieces >= 2 THEN WarriorTier(2)[f] ELSE 0)
                + (IF WarriorPieces >= 4 THEN WarriorTier(4)[f] ELSE 0)
    /\ \A n \in 0..Len(GearSlots) :
          LET act == ActiveBonuses("warrior", n)
          IN [i \in 1..Len(act) |-> act[i].pieces]
               = IF n >= 4 THEN <<2, 4>> ELSE IF n >= 2 THEN <<2>> ELSE <<>>

\* C11 witness: equipGear has completed three pieces of the warrior set and
\* the total holds the 2-piece block only (attack 10 + 5, energy 5 + 10)
C11_Witness ==
    /\ ret.op = "equipGear"
    /\ ret.value
    /\ WarriorPieces = 3
    /\ calculateTotalStats(gearLoadout).attack = 15
    /\ calculateTotalStats(gearLoadout).energy = 15

\* C14: equipGear with an unknown item id, or with a slot that is not the
\* item's own, returns false and leaves the loadout as it was; and every
\* non-empty slot of the loadout holds an item whose slot field is that slot.
C14_EquipGearRejectsMismatch ==
    /\ [](\A sl \in GearSlotSet :
            gearLoadout[sl] # None => GearDef[gearLoadout[sl]].slot = sl)
    /\ [][ret'.op = "equipGear" =>
            LET id == ret'.args[1]
                slot == ret'.args[2]
                mismatch == IF id \notin GearIds THEN TRUE
                            ELSE GearDef[id].slot # slot
            IN mismatch => (ret'.value = FALSE /\ gearLoadout' = gearLoadout)]_vars

\* C14 witness: equipGear of a registered item into a slot that is not its
\* own was refused, another item sitting in the loadout
C14_Witness ==
    /\ ret.op = "equipGear"
    /\ ~ret.value
    /\ ret.args[1] \in GearIds
    /\ GearDef[ret.args[1]].slot # ret.args[2]
    /\ \E sl \in GearSlotSet : gearLoadout[sl] # None

-----------------------------------------------------------------------------
(* Claims about the saved progress record *)

\* C12: for every progress state, the record written by saveProgress and read
\* back by loadProgress has a metaUpgrades map with the same keys and the same
\* upgrade fields and an unlockedContent set with the same members.
C12_SaveLoadRoundTrip ==
    LET back == loadProgress(<<saveProgress(progress)>>)
    IN /\ DOMAIN back.metaUpgrades = DOMAIN progress.metaUpgrades
       /\ \A id \in DOMAIN progress.metaUpgrades :
             back.metaUpgrades[id] = progress.metaUpgrades[id]
       /\ back.unlockedContent = progress.unlockedContent

\* C12 witness: a progress with two pieces of content unlocked and an upgrade
\* bought in this session was saved by the purchase and read back on reload
C12_Witness ==
    /\ ret.op = "reload"
    /\ progress.unlockedContent = {"hard-mode", "skins"}
    /\ progress.metaUpgrades["damage-boost"].currentLevel = MaxStoredLevel + 1
    /\ progress.metaUpgrades["resource-gain"].currentLevel = 0
    /\ storage = <<saveProgress(progress)>>

-----------------------------------------------------------------------------
(* Claims about the skill and passive loadouts *)

\* the slots of a loadout that hold the id
SlotsHolding(slots, id) == {i \in 1..Len(slots) : slots[i] = id}

\* a successful equip put the id into the slot and emptied every other slot
\* that held it, the rest as it was
EquipMoved(before, after, id, slotIndex) ==
    /\ after[slotIndex + 1] = id
    /\ \A i \in (1..Len(before)) \ {slotIndex + 1} :
          after[i] = IF before[i] = id THEN None ELSE before[i]

\* C13: after any sequence of equip and unequip calls every skill id and every
\* passive id occupies at most one slot of its loadout, and a successful equip
\* of an id held by another slot empties that slot.
C13_NoDuplicateEquip ==
    /\ [](/\ \A id \in SkillIds : Cardinality(SlotsHolding(skillSlots, id)) <= 1
          /\ \A id \in PassiveIds : Cardinality(SlotsHolding(passiveSlots, id)) <= 1)
    /\ [][/\ (ret'.op = "equipSkill" /\ ret'.value) =>
               EquipMoved(skillSlots, skillSlots', ret'.args[1], ret'.args[2])
          /\ (ret'.op = "equipPassive" /\ ret'.value) =>
               EquipMoved(passiveSlots, passiveSlots', ret'.args[1], ret'.args[2])]_vars

\* C13 witness: Basic Attack, equipped in slot 0 by the constructor, was
\* equipped into slot 2 and is in no other slot, a passive equipped as well
C13_Witness ==
    /\ ret.op = "equipSkill"
    /\ ret.value
    /\ ret.args = <<"basicAttack", 2>>
    /\ SlotsHolding(skillSlots, "basicAttack") = {3}
    /\ skillSlots[1] = None
    /\ SlotsHolding(passiveSlots, "toughness") = {1}

\* the call named a slot index outside [0, maxSlots) or an unregistered id
BadEquipArgs(ids, maxSlots, args) ==
    \/ args[2] < 0
    \/ args[2] >= maxSlots
    \/ args[1] \notin ids

\* C15: equipSkill and equipPassive called with a slot index outside
\* [0, maxSlots) or with an unknown id return false and leave every slot of
\* both loadouts as it was.
C15_EquipFailsClosed ==
    [][/\ (ret'.op = "equipSkill" /\ BadEquipArgs(SkillIds, SkillMaxSlots, ret'.args)) =>
           (ret'.value = FALSE /\ skillSlots' = skillSlots /\ passiveSlots' = passiveSlots)
       /\ (ret'.op = "equipPassive"
             /\ BadEquipArgs(PassiveIds, PassiveMaxSlots, ret'.args)) =>
           (ret'.value = FALSE /\ skillSlots' = skillSlots /\ passiveSlots' = passiveSlots)]_vars

\* C15 witness: equipSkill of a registered skill into slot index maxSlots was
\* refused, the skill sitting in a slot of a loadout that holds two skills
C15_Witness ==
    /\ ret.op = "equipSkill"
    /\ ~ret.value
    /\ ret.args[2] = SkillMaxSlots
    /\ ret.args[1] \in SkillIds
    /\ SlotsHolding(skillSlots, ret.args[1]) # {}
    /\ Cardinality({i \in 1..Len(skillSlots) : skillSlots[i] # None}) = 2

-----------------------------------------------------------------------------
(* Claims about the best run *)

\* (wave, resourcesGained) of run a is lexicographically at least that of b
LexAtLeast(a, b) ==
    \/ a.wave > b.wave
    \/ (a.wave = b.wave /\ a.resourcesGained >= b.resourcesGained)

\* C16: every endRun of a started run leaves a bestRun whose
\* (wave, resourcesGained) is lexicographically at least that of the run just
\* ended and at least that of the bestRun before, hence of every run ended so
\* far; bestRun becomes the ended run exactly when there was none, or the run
\* reached a higher wave, or the same wave with strictly more resources
\* gained, and is left alone otherwise.
C16_BestRunIsLexMax ==
    [][(ret'.op = "endRun" /\ currentRun.started) =>
         /\ progress'.bestRun.started
         /\ LexAtLeast(progress'.bestRun, currentRun')
         /\ progress.bestRun.started => LexAtLeast(progress'.bestRun, progress.bestRun)
         /\ IF \/ ~progress.bestRun.started
               \/ currentRun'.wave > progress.bestRun.wave
               \/ /\ currentRun'.wave = progress.bestRun.wave
                  /\ currentRun'.resourcesGained > progress.bestRun.resourcesGained
            THEN progress'.bestRun = currentRun'
            ELSE progress'.bestRun = progress.bestRun]_vars

\* C16 witness: two runs were ended, both at wave 1, the first without
\* resources and the second with some: the second is the best run
C16_Witness ==
    /\ ret.op = "endRun"
    /\ progress.totalRuns = 2
    /\ progress.bestRun = currentRun
    /\ currentRun.wave = 1
    /\ currentRun.resourcesGained > 0
    /\ progress.statistics.totalResourcesGained = currentRun.resourcesGained

-----------------------------------------------------------------------------
(* Claims about the end of combat *)

\* C17: an update of a fight in progress that ends with the player at health
\* 0 or less leaves the engine in DEFEAT, whether or not every enemy is
\* defeated as well; the engine enters VICTORY only with the player above
\* health 0 and every enemy defeated.
C17_DefeatBeforeVictory ==
    [][/\ (pc = "actions" /\ pc' = "idle" /\ currentState = "IN_PROGRESS"
            /\ ent'[Player].stats.currentHealth <= 0) => currentState' = "DEFEAT"
       /\ (currentState # "VICTORY" /\ currentState' = "VICTORY") =>
           (ent'[Player].stats.currentHealth > 0 /\ AllEnemiesDown(ent', enemies'))]_vars

\* C17 witness: the player and the last enemy fell in the same update, and
\* the fight is lost
C17_Witness ==
    /\ currentState = "DEFEAT"
    /\ pc = "idle"
    /\ ent[Player].stats.currentHealth <= 0
    /\ Cardinality(DOMAIN ent) > 1
    /\ AllEnemiesDown(ent, enemies)

-----------------------------------------------------------------------------
(* Claims about the ON_ATTACK passives *)

\* C18: an Attack action takes from its target the base damage
\* max(1, attack - defense) multiplied by (1 + effect value) for every effect
\* of every ON_ATTACK passive that triggered (health stopping at 0), for some
\* outcome of the rolls; when an effect value is not zero and the target has
\* more health than the base damage, the health lost is not the base damage.
C18_PassiveScaledDamage ==
    [][(pc = "actions" /\ actionQueue # <<>> /\ Head(actionQueue).type = "ATTACK"
          /\ actionQueue' = Tail(actionQueue)) =>
         LET a == Head(actionQueue)
             health == ent[a.target].stats.currentHealth
             lost == health - ent'[a.target].stats.currentHealth
         IN \E triggered \in checkTrigger(passiveSlots, "ON_ATTACK") :
              LET values == TriggeredValues(triggered, ent[a.source].stats.level, <<a.damage>>)
              IN /\ lost = Min(health, finalDamage(a.damage, values))
                 /\ ((\E i \in 1..Len(values) : values[i] # 0) /\ health > a.damage)
                      => lost # a.damage]_vars

-----------------------------------------------------------------------------
(* Claims about the round clock *)

\* an update of a fight in progress generates a round exactly when at least
\* minDelta ms have passed since the last round start: then the round's
\* actions are queued, the round is appended to the log, the cooldowns are
\* decremented and the round start moves to now; otherwise no action is
\* generated, no round appended and no cooldown decremented.  Nothing else
\* appends a round.  Every update, early or not, ends with the terminal check.
RoundGatedAt(minDelta) ==
    /\ (pc = "idle" /\ pc' = "actions") =>
        IF now - lastRoundTime >= minDelta
        THEN /\ Len(rounds') = Len(rounds) + 1
             /\ rounds'[Len(rounds')].actions = actionQueue'
             /\ skillCooldown' = updateCooldowns(skillSlots, skillCooldown)
             /\ lastRoundTime' = now
        ELSE UNCHANGED <<actionQueue, rounds, currentRound, lastRoundTime, skillCooldown>>
    /\ rounds' # rounds =>
        (pc = "idle" /\ pc' = "actions" /\ now - lastRoundTime >= minDelta)
    /\ (pc = "actions" /\ pc' = "idle"
         /\ (ent[Player].stats.currentHealth <= 0 \/ AllEnemiesDown(ent, enemies))) =>
        currentState' \in {"VICTORY", "DEFEAT"}

\* C19 as stated: a round is generated only in an update made more than
\* ROUND_DURATION ms after the last round start; an update made earlier
\* generates no action, appends no round and decrements no cooldown, but
\* still checks the terminal conditions.
C19_RoundAfterDuration == [][RoundGatedAt(ROUND_DURATION + 1)]_vars

\* C19 amended: a round is generated exactly in the updates made at least
\* ROUND_DURATION ms after the last round start, the update made at exactly
\* ROUND_DURATION ms included; an update made earlier generates no action,
\* appends no round and decrements no cooldown, but still checks the terminal
\* conditions.
C19_RoundAtDuration == [][RoundGatedAt(ROUND_DURATION)]_vars

\* C19 witness: the first round was generated by the update made exactly
\* ROUND_DURATION ms after startCombat, after an update made at half of it
\* had generated none; a skill used in the round is cooling down
C19_Witness ==
    /\ Len(rounds) = 1
    /\ rounds[1].timestamp = ROUND_DURATION
    /\ lastRoundTime = ROUND_DURATION
    /\ now = ROUND_DURATION
    /\ pc = "idle"
    /\ currentState = "IN_PROGRESS"
    /\ \E id \in SkillIds : skillCooldown[id] > 0

-----------------------------------------------------------------------------
(* Claims about the player's choice of action *)

\* the squared x/z distance of two entities, in 1/PosScale squared
DistSq(a, b) == (a.x - b.x) * (a.x - b.x) + (a.z - b.z) * (a.z - b.z)

\* the actions of the player in a list of actions
PlayerActions(actions) == SelectSeq(actions, LAMBDA a : a.source = Player)

\* the slots holding a skill that is off cooldown and that the player can pay
ReadySlots ==
    {i \in 1..Len(skillSlots) :
        /\ skillSlots[i] # None
        /\ skillCooldown[skillSlots[i]] = 0
        /\ ent[Player].stats.currentEnergy >= Scale * SkillDef[skillSlots[i]].energyCost}

\* the enemies of the roster above health 0
LivingEnemies ==
    {enemies[i] : i \in {j \in 1..Len(enemies) : ent[enemies[j]].stats.currentHealth > 0}}

\* C20: in every round generated, a living player with a living enemy emits
\* exactly one action, aimed at a living enemy no farther than any other: a
\* Skill with the skill of the first slot that is off cooldown and affordable,
\* whatever the distance; else an Attack if the squared distance is within
\* the squared attack range; else a Move.  A dead player, or a player without
\* a living enemy, emits none.
C20_PlayerActionPriority ==
    [][Len(rounds') = Len(rounds) + 1 =>
         LET mine == PlayerActions(rounds'[Len(rounds')].actions)
         IN IF ent[Player].stats.currentHealth <= 0 \/ LivingEnemies = {}
            THEN mine = <<>>
            ELSE /\ Len(mine) = 1
                 /\ mine[1].target \in LivingEnemies
                 /\ \A e \in LivingEnemies :
                       DistSq(ent[Player], ent[mine[1].target]) <= DistSq(ent[Player], ent[e])
                 /\ IF ReadySlots # {}
                    THEN /\ mine[1].type = "SKILL"
                         /\ mine[1].skill =
                              skillSlots[CHOOSE i \in ReadySlots : \A j \in ReadySlots : i <= j]
                    ELSE IF DistSq(ent[Player], ent[mine[1].target])
                              <= ATTACK_RANGE * ATTACK_RANGE
                         THEN mine[1].type = "ATTACK"
                         ELSE mine[1].type = "MOVE"]_vars

\* C20 witness: with Heal in slot 0 cooling down after the round before, the
\* player's action of the last round is the skill of slot 1, aimed at an
\* enemy out of attack range
C20_Witness ==
    /\ Len(rounds) >= 2
    /\ skillSlots[1] = "heal"
    /\ skillCooldown["heal"] > 0
    /\ LET mine == PlayerActions(rounds[Len(rounds)].actions)
           before == PlayerActions(rounds[Len(rounds) - 1].actions)
       IN /\ Len(mine) = 1
          /\ Len(before) = 1
          /\ before[1].skill = "heal"
          /\ mine[1].type = "SKILL"
          /\ mine[1].skill = skillSlots[2]
          /\ DistSq(ent[Player], ent[mine[1].target]) > ATTACK_RANGE * ATTACK_RANGE

-----------------------------------------------------------------------------
(* Claims about the skill cooldowns *)

\* the skill sits in a slot of the loadout
Equipped(id) == \E i \in 1..Len(skillSlots) : skillSlots[i] = id

\* C21: every skill's currentCooldown stays within 0 and its cooldown.  It
\* changes only by a successful executeSkill, which sets it to the skill's
\* cooldown, and by updateCooldowns, which lowers the positive cooldown of an
\* equipped skill by exactly 1; and updateCooldowns runs in exactly the
\* updates that generate a round, once.
C21_CooldownBounds ==
    /\ [](\A id \in SkillIds :
            0 <= skillCooldown[id] /\ skillCooldown[id] <= SkillDef[id].cooldown)
    /\ [][/\ \A id \in SkillIds :
               skillCooldown'[id] # skillCooldown[id] =>
                 \/ /\ pc = "actions"
                    /\ actionQueue # <<>>
                    /\ Head(actionQueue).type = "SKILL"
                    /\ Head(actionQueue).skill = id
                    /\ skillCooldown[id] = 0
                    /\ skillCooldown'[id] = SkillDef[id].cooldown
                 \/ /\ Len(rounds') = Len(rounds) + 1
                    /\ Equipped(id)
                    /\ skillCooldown[id] > 0
                    /\ skillCooldown'[id] = skillCooldown[id] - 1
          /\ Len(rounds') = Len(rounds) + 1 =>
               \A id \in SkillIds :
                 (Equipped(id) /\ skillCooldown[id] > 0) =>
                    skillCooldown'[id] = skillCooldown[id] - 1]_vars

\* C21 witness: Power Strike, used in an earlier round, has been cooling
\* down for two rounds and is neither fresh nor ready
C21_Witness ==
    /\ Equipped("powerStrike")
    /\ skillCooldown["powerStrike"] = SkillDef["powerStrike"].cooldown - 2
    /\ Len(rounds) >= 3
    /\ pc = "idle"

-----------------------------------------------------------------------------
(* Claims about the roster *)

\* the roster as a set
Roster(roster) == {roster[i] : i \in 1..Len(roster)}

\* C22: an enemy of the roster whose health goes from above 0 to 0 or less
\* while an action is resolved is off the roster when that action is done,
\* before the next queued action is resolved; the actions left in the queue
\* stay queued, those naming a removed enemy included, and each is resolved
\* in its turn.
C22_RemovedWithinAction ==
    [][(pc = "actions" /\ actionQueue # <<>> /\ pc' = "actions") =>
         /\ actionQueue' = Tail(actionQueue)
         /\ \A e \in Roster(enemies) :
               (ent[e].stats.currentHealth > 0 /\ ent'[e].stats.currentHealth <= 0)
                  => e \notin Roster(enemies')]_vars

-----------------------------------------------------------------------------
(* Claims about checkTrigger *)

\* the equipped passives of the trigger, in slot order
Matching(trigger) ==
    SelectSeq(passiveSlots, LAMBDA id : id # None /\ PassiveDef[id].trigger = trigger)

\* every element of a is an element of b
Among(a, b) == \A i \in 1..Len(a) : \E j \in 1..Len(b) : a[i] = b[j]

\* C23: checkTrigger returns one result per equipped passive of the trigger
\* that passed its roll, the passives without a chance all among them, and
\* every effect value is floor(base value x (1 + (level - 1) x 0.1) x c):
\* c the context value when one is passed, 0 included, and 1 when none is.
C23_TriggerValues ==
    [][ret'.op = "checkTrigger" =>
         LET trigger == ret'.args[1]
             level == ent[ret'.args[2]].stats.level
             c == IF ret'.args[3] = <<>> THEN Scale ELSE ret'.args[3][1]
             results == ret'.effects
             names == [i \in 1..Len(results) |-> results[i].passive]
         IN /\ Among(names, Matching(trigger))
            /\ \A i, j \in 1..Len(names) : i # j => names[i] # names[j]
            /\ \A k \in 1..Len(Matching(trigger)) :
                  (\A e \in 1..Len(PassiveDef[Matching(trigger)[k]].effects) :
                      PassiveDef[Matching(trigger)[k]].effects[e].chance = 0)
                    => \E i \in 1..Len(names) : names[i] = Matching(trigger)[k]
            /\ \A i \in 1..Len(results) :
                  LET effects == PassiveDef[results[i].passive].effects
                  IN /\ Len(results[i].values) = Len(effects)
                     /\ \A e \in 1..Len(effects) :
                           results[i].values[e]
                             = FloorDiv(effects[e].value * (9 + level) * c,
                                        1000 * Scale)]_vars

-----------------------------------------------------------------------------
(* Claims about successive combat sessions *)

\* C24: with a gear item or a permanent STAT_BOOST passive equipped, the
\* combat manager built for a later session of the same player entity leaves
\* the player's attack, defense and maxHealth as they were at the start of
\* the session before: gear totals and permanent boosts are added once.
C24_GearAppliedOnce ==
    [][(/\ ret'.op = "construct"
        /\ \/ \E sl \in GearSlotSet : gearLoadout[sl] # None
           \/ \E i \in 1..Len(passiveSlots) :
                 /\ passiveSlots[i] # None
                 /\ PassiveDef[passiveSlots[i]].trigger = "PERMANENT") =>
         /\ ent'[Player].stats.attack = ent[Player].stats.attack
         /\ ent'[Player].stats.defense = ent[Player].stats.defense
         /\ ent'[Player].stats.maxHealth = ent[Player].stats.maxHealth]_vars

-----------------------------------------------------------------------------
(* Claims about the resource balance *)

\* C25: an endRun of a started run raises the resource balance by
\* floor((wave x 50 + enemiesDefeated x 10 + floor(difficulty x 100)
\* + (500 for VICTORY, else 0)) x (1 + 0.1 x level of resource-gain)), from
\* the run's counters at the call; an endRun without a run leaves the balance
\* alone, as every call other than endRun and purchaseUpgrade does.
C25_RunReward ==
    [][/\ ret'.op = "endRun" =>
           progress'.resources - progress.resources =
             IF ~currentRun.started THEN 0
             ELSE FloorDiv((currentRun.wave * 50 + currentRun.enemiesDefeated * 10
                              + currentRun.difficulty
                              + (IF ret'.args[1] = "VICTORY" THEN 500 ELSE 0))
                             * (100 + UpgradeDef("resource-gain").value
                                        * progress.metaUpgrades["resource-gain"].currentLevel),
                           100)
       /\ ret'.op \notin {"endRun", "purchaseUpgrade"} =>
           progress'.resources = progress.resources]_vars

\* C25 witness: a victorious run to wave 2 with one enemy defeated was ended
\* with resource-gain at level 2: (100 + 10 + 100 + 500) x 1.2 = 852 was added
\* to the 275 left by the earlier session
C25_Witness ==
    /\ ret.op = "endRun"
    /\ ret.args = <<"VICTORY">>
    /\ currentRun.wave = 2
    /\ currentRun.enemiesDefeated = 1
    /\ progress.metaUpgrades["resource-gain"].currentLevel = 2
    /\ progress.totalRuns = 2
    /\ progress.resources = 275 + 852

\* C27: a run is folded into the lifetime progress once: an endRun call that
\* follows the endRun which finalized the run, no startNewRun in between,
\* leaves totalRuns, the lifetime statistics and the resource balance as
\* they are.
C27_RunFoldedOnce ==
    [][(ret.op = "endRun" /\ ret'.op = "endRun" /\ currentRun.started) =>
         /\ progress'.totalRuns = progress.totalRuns
         /\ progress'.statistics = progress.statistics
         /\ progress'.resources = progress.resources]_vars

-----------------------------------------------------------------------------
(* Claims about the action queue *)

\* C26: the queue is empty whenever update has returned.  The actions of a
\* generated round are the queue of the update that generated it; the queue
\* changes only so, or by the resolution of its head, which applies the
\* head's effect and leaves the tail, within the same update: the clock does
\* not move and no round is generated while actions are queued.
C26_QueueDrainedInOrder ==
    /\ [](pc = "idle" => actionQueue = <<>>)
    /\ [][/\ Len(rounds') = Len(rounds) + 1 =>
               (pc' = "actions" /\ actionQueue' = rounds'[Len(rounds')].actions)
          /\ (pc = "actions" /\ actionQueue # <<>>) =>
               LET w == resolveAction([ent |-> ent, enemies |-> enemies,
                                       run |-> currentRun, cds |-> skillCooldown],
                                      progress.metaUpgrades, Head(actionQueue))
               IN /\ actionQueue' = Tail(actionQueue)
                  /\ ent' = w.ent
                  /\ enemies' = w.enemies
                  /\ now' = now
                  /\ rounds' = rounds
                  /\ pc' = "actions"
          /\ actionQueue' # actionQueue =>
               \/ Len(rounds') = Len(rounds) + 1
               \/ actionQueue' = Tail(actionQueue)]_vars

\* C26 witness: of the three actions of the last round two are resolved and
\* the third is still queued, in the update that generated them
C26_Witness ==
    /\ pc = "actions"
    /\ rounds # <<>>
    /\ Len(rounds[Len(rounds)].actions) = 3
    /\ actionQueue = <<rounds[Len(rounds)].actions[3]>>
    /\ rounds[Len(rounds)].timestamp = now

-----------------------------------------------------------------------------
(* Claims about the end of every fight *)

-----------------------------------------------------------------------------
\* C29: within a run every enemy is counted as defeated at most once: the
\* run's enemiesDefeated counter equals the number of enemies that have left
\* the engine's roster since the run began, also after a skill of several
\* attack effects has resolved all its effects against one target.
RemovedFromRoster == Cardinality(DOMAIN ent) - 1 - Len(enemies)

-----------------------------------------------------------------------------
\* C30: whatever startNewRun, trackCombatEvent, advanceWave, endRun and
\* purchaseUpgrade calls follow a fresh progress record, the resource balance
\* is never negative and every meta-upgrade has a level from 0 to its
\* maximum level.
C30_BalanceAndLevelsBounded ==
    /\ progress.resources >= 0
    /\ \A id \in DOMAIN progress.metaUpgrades :
         /\ progress.metaUpgrades[id].currentLevel >= 0
         /\ progress.metaUpgrades[id].currentLevel <= UpgradeDef(id).maxLevel

\* a purchase has gone on that took an upgrade to its maximum level and left
\* a balance below the cost it paid (the cost now is floor(cost paid x 1.5))
C30_Witness ==
    /\ ret.op = "purchaseUpgrade"
    /\ ret.value = TRUE
    /\ progress.metaUpgrades[ret.args[1]].currentLevel = UpgradeDef(ret.args[1]).maxLevel
    /\ progress.resources < (2 * progress.metaUpgrades[ret.args[1]].cost) \div 3

====
